---- MODULE Spec2Model ----
(***************************************************************************)
(* Banking front-end (React + Apollo Client): the two write forms          *)
(* (CreateCompte, TransactionForm), the two read components (CompteList,   *)
(* TransactionList) and the transport client between them and the GraphQL  *)
(* backend.                                                                *)
(*                                                                         *)
(* Text is a sequence of one-character strings: <<"0", ".", "5">> is the   *)
(* JavaScript string "0.5" and <<>> is the empty string.  A character     *)
(* outside ASCII is written by its code point, as in "U+00A0".  Notice     *)
(* texts are written without their accents and emoji.                      *)
(*                                                                         *)
(* A number is [kind |-> "NaN"], [kind |-> "Infinity", neg], or            *)
(* [kind |-> "num", neg, mant, scale], standing for                        *)
(* (-1)^neg * mant / 10^scale, where mant is the sequence of the decimal   *)
(* digits of a natural number of any size, without leading or trailing    *)
(* zero (so the scale of 5000 is -3, and 0 is the empty sequence with      *)
(* scale 0): equal numbers are equal records.  A double is the shortest    *)
(* decimal that converts to it, the one JavaScript prints.                 *)
(*                                                                         *)
(* The event loop runs one handler to completion per step.  alerts is the  *)
(* sequence of window.alert notices raised by the latest step, issued the  *)
(* sequence of read operations handed to the client by the latest step,    *)
(* bubble the control at which the browser showed its validation message   *)
(* in the latest step.  A click on a submit button is CC_submit or         *)
(* TF_submit: the browser validates the form and calls handleSubmit only   *)
(* when every control satisfies its constraints.                           *)
(***************************************************************************)
EXTENDS Integers, Sequences, FiniteSets, TLC

VARIABLES
    cc_solde,          \* CreateCompte: useState('') balance field
    cc_type,           \* CreateCompte: useState('COURANT') kind selector
    cc_mutation,       \* CreateCompte: useMutation(SAVE_COMPTE) {loading, error}
    cc_request,        \* SAVE_COMPTE write on the wire, or NoRequest
    cc_call,           \* CreateCompte.handleSubmit: position of the async call
    tf_type,           \* TransactionForm: useState('DEPOT') kind selector
    tf_montant,        \* TransactionForm: useState('') amount field
    tf_compteId,       \* TransactionForm: useState('') account selector
    tf_mutation,       \* TransactionForm: useMutation(ADD_TRANSACTION) {loading, error}
    tf_request,        \* ADD_TRANSACTION write on the wire, or NoRequest
    tf_call,           \* TransactionForm.handleSubmit: position of the async call
    tf_comptesData,    \* TransactionForm: data of useQuery(GET_ALL_COMPTES)
    compteList,        \* CompteList: useQuery(GET_ALL_COMPTES) {loading, error, data}
    transactionList,   \* TransactionList: useQuery(GET_ALL_TRANSACTIONS) {loading, error, data}
    inflight,          \* per query: who waits for the read request on the wire
    cache,             \* InMemoryCache, ROOT_QUERY: per query the ids of the
                       \* rows of its latest result
    entities,          \* InMemoryCache, the Compte:<id> objects: the balance
                       \* of each account the cache holds, "none" otherwise
    alerts,            \* notices raised by the latest step
    issued,            \* reads handed to the client by the latest step
    mounted,           \* the components of the page that are mounted
    origin,            \* history: which request the data on display came from
    bubble,            \* control the browser's validation message of the latest
                       \* step points at, "none" when the step showed none
    timezoneOffset,    \* time zone of the browser: minutes from local time to
                       \* UTC, what Date.prototype.getTimezoneOffset() gives
    locale             \* locale of the browser, in which a number field shows
                       \* and reads its number

vars == <<cc_solde, cc_type, cc_mutation, cc_request, cc_call,
          tf_type, tf_montant, tf_compteId, tf_mutation, tf_request, tf_call,
          tf_comptesData, compteList, transactionList, inflight, cache,
          entities, alerts, issued, mounted, origin, bubble, timezoneOffset, locale>>

ccVars == <<cc_solde, cc_type, cc_mutation, cc_request, cc_call>>
tfVars == <<tf_type, tf_montant, tf_compteId, tf_mutation, tf_request, tf_call>>
readVars == <<tf_comptesData, compteList, transactionList, cache, entities>>

-----------------------------------------------------------------------------
(* JavaScript and HTML text-to-number conversions *)

Digit == {"0", "1", "2", "3", "4", "5", "6", "7", "8", "9"}

DigitVal(c) ==
    CASE c = "0" -> 0 [] c = "1" -> 1 [] c = "2" -> 2 [] c = "3" -> 3
      [] c = "4" -> 4 [] c = "5" -> 5 [] c = "6" -> 6 [] c = "7" -> 7
      [] c = "8" -> 8 [] c = "9" -> 9

\* First position at or after i that holds no digit (Len(s) + 1 when none).
DigitsEnd(s, i) ==
    CHOOSE j \in i..(Len(s) + 1) :
        /\ \A k \in i..(j - 1) : s[k] \in Digit
        /\ (j = Len(s) + 1 \/ s[j] \notin Digit)

\* The digit run s[i..j-1] as a sequence of numbers (empty when j <= i).
Digits(s, i, j) == [k \in 1..(j - i) |-> DigitVal(s[i + k - 1])]

\* Natural numbers of any size are sequences of decimal digits, the most
\* significant first and not 0; the empty sequence is 0.
Zeros(n) == [k \in 1..n |-> 0]

LeadingZeros(d) ==
    CHOOSE z \in 0..Len(d) :
        /\ \A i \in 1..z : d[i] = 0
        /\ (z = Len(d) \/ d[z + 1] # 0)

TrailingZeros(d) ==
    CHOOSE z \in 0..Len(d) :
        /\ \A i \in (Len(d) - z + 1)..Len(d) : d[i] = 0
        /\ (z = Len(d) \/ d[Len(d) - z] # 0)

Strip(d) == SubSeq(d, LeadingZeros(d) + 1, Len(d))

\* a < b
Less(a, b) ==
    \/ Len(a) < Len(b)
    \/ /\ Len(a) = Len(b)
       /\ \E i \in 1..Len(a) : /\ a[i] < b[i]
                               /\ \A j \in 1..(i - 1) : a[j] = b[j]

\* 2 * d, on Len(d) + 1 digits: a digit doubles and takes the carry of the
\* digit after it.
DoubleRaw(d) ==
    [i \in 1..(Len(d) + 1) |->
        (IF i = 1 THEN 0 ELSE (2 * d[i - 1]) % 10)
        + (IF i <= Len(d) /\ d[i] >= 5 THEN 1 ELSE 0)]

\* d \div 2: a digit halves after taking ten for an odd digit before it.
Halve(d) ==
    Strip([i \in 1..Len(d) |->
             (d[i] + (IF i > 1 /\ d[i - 1] % 2 = 1 THEN 10 ELSE 0)) \div 2])

\* d + 1
Increment(d) ==
    LET p == CHOOSE q \in 0..Len(d) :
                 /\ q = 0 \/ d[q] # 9
                 /\ \A i \in (q + 1)..Len(d) : d[i] = 9
    IN  IF p = 0 THEN <<1>> \o Zeros(Len(d))
        ELSE SubSeq(d, 1, p - 1) \o <<d[p] + 1>> \o Zeros(Len(d) - p)

\* d * 2^k and d * 5^k, by halves of k.
RECURSIVE DoubleTimes(_, _)
DoubleTimes(d, k) ==
    IF k = 0 THEN d
    ELSE IF k = 1 THEN Strip(DoubleRaw(d))
    ELSE CHOOSE r \in
           { DoubleTimes(x, k - k \div 2) : x \in {DoubleTimes(d, k \div 2)} }
           : TRUE

RECURSIVE Times5(_, _)
Times5(d, k) ==
    IF k = 0 THEN d
    ELSE IF k = 1 THEN Halve(d \o <<0>>)
    ELSE CHOOSE r \in
           { Times5(x, k - k \div 2) : x \in {Times5(d, k \div 2)} } : TRUE

\* The value of a small number as digits, and back.
RECURSIVE IntDigits(_)
IntDigits(n) == IF n = 0 THEN <<>> ELSE Append(IntDigits(n \div 10), n % 10)


TwoTo52 == <<4, 5, 0, 3, 5, 9, 9, 6, 2, 7, 3, 7, 0, 4, 9, 6>>
TwoTo53 == <<9, 0, 0, 7, 1, 9, 9, 2, 5, 4, 7, 4, 0, 9, 9, 2>>
MinExponent == -1074
MaxExponent == 971

\* A double is m * 2^k with m < 2^53 and MinExponent <= k <= MaxExponent,
\* and m >= 2^52 unless k = MinExponent.  The conversion of a decimal keeps
\* its integer part i, its fraction f (the digits after the point), the
\* exponent k and, of what halving has dropped, the last bit (round) and
\* whether anything else was lost (sticky).

\* At most n halvings of i, until i < 2^53, by halves of n.
RECURSIVE ShiftRightUntil(_, _)
ShiftRightUntil(b, n) ==
    IF Less(b.i, TwoTo53) THEN b
    ELSE IF n = 1
    THEN [i |-> Halve(b.i), f |-> <<>>, k |-> b.k + 1,
          round |-> b.i[Len(b.i)] % 2 = 1, sticky |-> b.sticky \/ b.round]
    ELSE CHOOSE r \in
           { ShiftRightUntil(x, n - n \div 2) :
               x \in {ShiftRightUntil(b, n \div 2)} } : TRUE

\* At most n doublings of i.f, until i >= 2^52 or k = MinExponent, by
\* halves of n.
RECURSIVE ShiftLeftUntil(_, _)
ShiftLeftUntil(b, n) ==
    IF ~Less(b.i, TwoTo52) \/ b.k = MinExponent THEN b
    ELSE IF n = 1
    THEN CHOOSE r \in
           { [i |-> Strip(SubSeq(c, 1, Len(b.i) + 1)),
              f |-> SubSeq(c, Len(b.i) + 2, Len(c)),
              k |-> b.k - 1, round |-> FALSE, sticky |-> FALSE] :
               c \in {SubSeq(DoubleRaw(b.i \o b.f), 1,
                             Len(b.i) + Len(b.f) + 1)} } : TRUE
    ELSE CHOOSE r \in
           { ShiftLeftUntil(x, n - n \div 2) :
               x \in {ShiftLeftUntil(b, n \div 2)} } : TRUE

\* The nearest m to i.f, or to i and the bits dropped: the even one when
\* halfway.
RoundBinary(b) ==
    LET round == IF Len(b.f) > 0 THEN b.f[1] >= 5 ELSE b.round
        sticky == IF Len(b.f) > 0
                  THEN \/ b.f[1] \notin {0, 5}
                       \/ \E j \in 2..Len(b.f) : b.f[j] # 0
                  ELSE b.sticky
        odd == Len(b.i) > 0 /\ b.i[Len(b.i)] % 2 = 1
        m == IF round /\ (sticky \/ odd) THEN Increment(b.i) ELSE b.i
    IN  IF m = TwoTo53 THEN [m |-> TwoTo52, k |-> b.k + 1]
        ELSE [m |-> m, k |-> b.k]

\* The double nearest to d * 10^q, for d # 0 without leading zero: [m, k];
\* m is 0 (the empty sequence) below half the smallest double, and
\* k > MaxExponent beyond the largest.
ToBinary(d, q) ==
    LET n == Len(d)
        i == IF q >= 0 THEN d \o Zeros(q)
             ELSE IF n + q <= 0 THEN <<>> ELSE SubSeq(d, 1, n + q)
        f == IF q >= 0 THEN <<>>
             ELSE IF n + q <= 0 THEN Zeros(0 - q - n) \o d
             ELSE SubSeq(d, n + q + 1, n)
    IN  CHOOSE r \in
          { RoundBinary(b) :
              b \in { IF Less(i, TwoTo53)
                      THEN ShiftLeftUntil([i |-> i, f |-> f, k |-> 0,
                                           round |-> FALSE, sticky |-> FALSE],
                                          0 - MinExponent)
                      ELSE ShiftRightUntil(
                             [i |-> i, f |-> <<>>, k |-> 0, round |-> FALSE,
                              sticky |-> \E j \in 1..Len(f) : f[j] # 0],
                             MaxExponent - MinExponent) } } : TRUE

\* The exact decimal of m * 2^k: digits e and scale s, the value e / 10^s.
ExactDecimal(m, k) ==
    IF k >= 0 THEN [e |-> DoubleTimes(m, k), s |-> 0]
    ELSE [e |-> Times5(m, 0 - k), s |-> 0 - k]

\* The decimal d * 10^q without its trailing zeros.
Canon(d, q) ==
    CHOOSE r \in
      { [mant |-> SubSeq(d, 1, Len(d) - z), scale |-> 0 - q - z] :
          z \in {TrailingZeros(d)} } : TRUE

\* A decimal of n digits can convert to a normal double only when it is
\* within 2^-53 of it, relatively: the digits n+1..15 of the exact value
\* are then all c, 0 below the decimal and 9 above it.
Near(b, e, n, c) ==
    Less(b.m, TwoTo52) \/ \A j \in (n + 1)..15 : j > Len(e) \/ e[j] = c

\* The shortest decimal that converts to the double b, whose exact value is
\* e / 10^s; of two decimals of that length, the nearer to the exact value,
\* and the even one when they are as near: [mant, scale].
RECURSIVE Shortest(_, _, _, _)
Shortest(b, e, s, n) ==
    IF n >= Len(e) THEN Canon(e, 0 - s)
    ELSE LET q == Len(e) - n - s
             half == e[n + 1] = 5 /\ \A j \in (n + 2)..Len(e) : e[j] = 0
             up == IF half THEN e[n] % 2 = 1 ELSE e[n + 1] >= 5
         IN  CHOOSE r \in
               { IF okLo /\ (~up \/ ~okHi) THEN Canon(lo, q)
                 ELSE IF okHi THEN Canon(hi, q)
                 ELSE Shortest(b, e, s, n + 1) :
                   lo \in {SubSeq(e, 1, n)},
                   hi \in {Increment(SubSeq(e, 1, n))},
                   okLo \in {/\ Near(b, e, n, 0)
                             /\ ToBinary(SubSeq(e, 1, n), q) = b},
                   okHi \in {/\ Near(b, e, n, 9)
                             /\ ToBinary(Increment(SubSeq(e, 1, n)), q) = b} }
                 : TRUE

NaN == [kind |-> "NaN"]

\* The number (-1)^neg * mant / 10^scale, mant a small natural number.
Num(neg, mant, scale) ==
    CHOOSE r \in
      { [kind |-> "num", neg |-> neg, mant |-> c.mant, scale |-> c.scale] :
          c \in {IF mant = 0 THEN [mant |-> <<>>, scale |-> 0]
                 ELSE Canon(IntDigits(mant), 0 - scale)} } : TRUE

\* The double nearest to (-1)^neg * digits * 10^exp, digits a digit
\* sequence.  A double is written as the shortest decimal that converts to
\* it (as JavaScript prints it): a decimal of at most 15 digits between
\* 1e-307 and 1e308 is that decimal itself.
ToDouble(neg, digits, exp) ==
    LET zero == [kind |-> "num", neg |-> neg, mant |-> <<>>, scale |-> 0]
        infinity == [kind |-> "Infinity", neg |-> neg]
        lz == LeadingZeros(digits)
        tz == IF lz = Len(digits) THEN 0 ELSE TrailingZeros(digits)
    IN  CHOOSE r \in
          { IF Len(d) = 0 THEN zero
            ELSE IF Len(d) <= 15 /\ q + Len(d) >= -306 /\ q + Len(d) <= 308
            THEN [kind |-> "num", neg |-> neg, mant |-> d, scale |-> 0 - q]
            ELSE IF q + Len(d) >= 310 THEN infinity
            ELSE IF q + Len(d) <= -324 THEN zero
            ELSE CHOOSE t \in
                   { IF b.k > MaxExponent THEN infinity
                     ELSE IF b.m = <<>> THEN zero
                     ELSE CHOOSE u \in
                            { CHOOSE v \in
                                { [kind |-> "num", neg |-> neg,
                                   mant |-> c.mant, scale |-> c.scale] :
                                    c \in {Shortest(b, x.e, x.s, 1)} } : TRUE :
                                x \in {ExactDecimal(b.m, b.k)} } : TRUE :
                       b \in {ToBinary(d, q)} } : TRUE :
              d \in {SubSeq(digits, lz + 1, Len(digits) - tz)},
              q \in {exp + tz} } : TRUE

\* Value of the exponent digits s[i..j-1]; beyond 10000 the result of a
\* conversion no longer depends on it for a text of less than 9000
\* characters.
RECURSIVE ExponentValue(_, _, _)
ExponentValue(s, i, j) ==
    IF j <= i THEN 0
    ELSE CHOOSE r \in
           { IF v >= 10000 THEN 10000 ELSE 10 * v + DigitVal(s[j - 1]) :
               v \in {ExponentValue(s, i, j - 1)} } : TRUE

\* StrWhiteSpaceChar: TAB, LF, VT, FF, CR and SP, then, by code point, NBSP,
\* ZWNBSP, the other space separators, and the line and paragraph separators.
WhiteSpace ==
    { " ", "\t", "\n", "\r", "\f", "",
      "U+00A0", "U+FEFF", "U+1680", "U+2000", "U+2001", "U+2002", "U+2003",
      "U+2004", "U+2005", "U+2006", "U+2007", "U+2008", "U+2009", "U+200A",
      "U+202F", "U+205F", "U+3000", "U+2028", "U+2029" }

\* The literal whose integer digits are s[i0..i1-1] and whose mantissa ends
\* before f1 (f1 > i1 when a "." follows the integer digits), with its
\* ExponentPart: e or E, an optional sign, digits s[e0..e1-1]; an exponent
\* without digits is not read.  Its digits, its exponent and the position
\* after it; none without a mantissa digit.
ExponentPart(s, neg, i0, i1, f1) ==
    LET e == f1 <= Len(s) /\ s[f1] \in {"e", "E"}
        esigned == e /\ f1 + 1 <= Len(s) /\ s[f1 + 1] \in {"-", "+"}
        e0 == IF esigned THEN f1 + 2 ELSE f1 + 1
    IN  IF i1 = i0 /\ f1 <= i1 + 1 THEN [kind |-> "none"]
        ELSE CHOOSE r \in
               { [kind |-> "literal", neg |-> neg,
                  int |-> Digits(s, i0, i1), frac |-> Digits(s, i1 + 1, f1),
                  exp |-> IF e1 <= e0 THEN 0
                          ELSE IF s[e0 - 1] = "-"
                          THEN 0 - ExponentValue(s, e0, e1)
                          ELSE ExponentValue(s, e0, e1),
                  end |-> IF e1 <= e0 THEN f1 ELSE e1] :
                   e1 \in {IF e THEN DigitsEnd(s, e0) ELSE e0} } : TRUE

\* StrUnsignedDecimalLiteral from position i0: digits with an optional
\* fraction, or a fraction alone, and an optional exponent.
StrUnsignedDecimalLiteral(s, neg, i0) ==
    CHOOSE r \in
      { CHOOSE t \in
          { ExponentPart(s, neg, i0, i1, f1) :
              f1 \in {IF i1 <= Len(s) /\ s[i1] = "."
                      THEN DigitsEnd(s, i1 + 1) ELSE i1} } : TRUE :
        i1 \in {DigitsEnd(s, i0)} } : TRUE

\* StrDecimalLiteral from position w0: an optional sign, then "Infinity" or
\* an unsigned literal.
StrDecimalLiteral(s, w0) ==
    LET signed == w0 <= Len(s) /\ s[w0] \in {"-", "+"}
        neg == signed /\ s[w0] = "-"
        i0 == IF signed THEN w0 + 1 ELSE w0
    IN  IF /\ i0 + 7 <= Len(s)
           /\ SubSeq(s, i0, i0 + 7) = <<"I", "n", "f", "i", "n", "i", "t", "y">>
        THEN [kind |-> "Infinity", neg |-> neg, end |-> i0 + 8]
        ELSE StrUnsignedDecimalLiteral(s, neg, i0)

\* parseFloat: leading white space is skipped; the longest prefix of the
\* rest that is a StrDecimalLiteral is the value and what follows it is
\* ignored; NaN when there is no such prefix.
parseFloat(s) ==
    LET w0 == CHOOSE j \in 1..(Len(s) + 1) :
                  /\ \A k \in 1..(j - 1) : s[k] \in WhiteSpace
                  /\ (j = Len(s) + 1 \/ s[j] \notin WhiteSpace)
    IN  CHOOSE r \in
          { IF l.kind = "literal"
            THEN ToDouble(l.neg, l.int \o l.frac, l.exp - Len(l.frac))
            ELSE IF l.kind = "Infinity"
            THEN [kind |-> "Infinity", neg |-> l.neg]
            ELSE NaN :
              l \in {StrDecimalLiteral(s, w0)} } : TRUE

\* JavaScript comparisons with 0: every comparison with NaN is false, and
\* -0 equals 0.
IsZero(n) == n.kind = "num" /\ n.mant = <<>>
LeqZero(n) == n.kind # "NaN" /\ (n.neg \/ IsZero(n))
LtZero(n) == n.kind # "NaN" /\ n.neg /\ ~IsZero(n)
GtZero(n) == n.kind # "NaN" /\ ~n.neg /\ ~IsZero(n)
GeqZero(n) == n.kind # "NaN" /\ (~n.neg \/ IsZero(n))

\* The text of a digit sequence.
DigitsText(d) == [i \in 1..Len(d) |-> ToString(d[i])]

\* The locales of the browser, and the decimal separator each writes a
\* number with; both write a negative number with a leading "-".
DecimalSeparator(loc) == IF loc = "fr-FR" THEN "," ELSE "."

NotASCIISpace(c) == c \notin {" ", "\t", "\n", "\f", "\r", ""}

\* What a number field makes of the text the user sees in it, before it
\* reads it as a number: spaces are dropped; then, when the text is an
\* optional "-" or "+" followed by digits and decimal separators of the
\* locale only, the "+" is dropped, the separators become "." and a final
\* "." is dropped; any other text is left as it is.
ConvertFromLocalizedNumber(text, loc) ==
    LET input == SelectSeq(text, NotASCIISpace)
        neg == Len(input) >= 1 /\ input[1] = "-"
        start == IF neg THEN 2
                 ELSE IF Len(input) >= 2 /\ input[1] = "+" THEN 2 ELSE 1
        body == SubSeq(input, start, Len(input))
        converted == (IF neg THEN <<"-">> ELSE <<>>)
                     \o [i \in 1..Len(body) |->
                           IF body[i] = DecimalSeparator(loc) THEN "."
                           ELSE body[i]]
    IN  IF \E i \in 1..Len(body) :
             body[i] \notin Digit \cup {DecimalSeparator(loc)}
        THEN input
        ELSE IF Len(converted) >= 2 /\ converted[Len(converted)] = "."
        THEN SubSeq(converted, 1, Len(converted) - 1)
        ELSE converted

\* The texts a number field keeps as its value: the HTML "valid
\* floating-point number", an optional "-", then digits with an optional
\* "." digits, or "." digits, then optionally e or E, an optional sign and
\* digits, nothing before or after; and, in the browser, digits "." and an
\* exponent ("5.e3") as well.
isValidFloatingPointNumber(s) ==
    /\ Len(s) >= 1
    /\ s[1] \in Digit \cup {"-", "."}
    /\ s[Len(s)] # "."
    /\ \E l \in {StrDecimalLiteral(s, 1)} :
         l.kind = "literal" /\ l.end = Len(s) + 1

\* Faulty variant: a text input, which reports whatever was typed.
NumberInputValue_Unsanitized(text, loc) == text

\* The value an <input type="number"> reports when the user sees text in
\* it: the converted text when it is a valid floating-point number that is
\* finite, else the empty string.
NumberInputValue(text, loc) ==
    CHOOSE r \in
      { IF isValidFloatingPointNumber(c) /\ parseFloat(c).kind = "num"
        THEN c ELSE <<>> :
          c \in {ConvertFromLocalizedNumber(text, loc)} } : TRUE

-----------------------------------------------------------------------------
(* The data contract and the inputs of the model *)

GET_ALL_COMPTES == "GET_ALL_COMPTES"
GET_ALL_TRANSACTIONS == "GET_ALL_TRANSACTIONS"
Queries == {GET_ALL_COMPTES, GET_ALL_TRANSACTIONS}

TypeCompte == {"COURANT", "EPARGNE"}
TypeTransaction == {"DEPOT", "RETRAIT"}

\* Contents of a number field: what the user has typed or pasted into it, in
\* a browser that takes every key (one that refuses a key leaves the content
\* without it, which is another of these contents).
TypedTexts ==
    { <<>>, <<"0">>, <<"-", "5">>, <<"5">>, <<"0", ".", "5">>,
      <<"1", "e", "5">>, <<"a">>, <<"5", "a">>, <<"+", "5">>, <<"5", ".">>,
      <<"1", ",", "5">>, <<"5", ".", "e", "3">> }

\* The backend holds at most MaxComptes accounts, with ids "1", "2", ...
MaxComptes == 2

CompteIds == {ToString(i) : i \in 1..MaxComptes}

\* The balance the backend reports for an account as long as no write has
\* changed it, 1500.50, and the balances it may report for an account at any
\* time, whatever account and whatever write (the backend is not part of the
\* repository): 1500.50 or 5000.00
Solde == Num(FALSE, 15005, 1)
Soldes == { Solde, Num(FALSE, 5000, 0) }

\* An account as a result carries it: the fields id, solde and type of the
\* selections (dateCreation, which like type never changes once the account
\* exists, is left out).  Account "1" is COURANT, the others EPARGNE.
Compte(id, solde) ==
    [id |-> id, solde |-> solde, type |-> IF id = "1" THEN "COURANT" ELSE "EPARGNE"]

\* A transaction as a result carries it: id, date (as yyyymmdd, "t1" the more
\* recent one) and compte { id solde type }, the account it was made on,
\* account "1" for every transaction, with the balance the backend reports
\* with the result.
Transaction(id, solde) ==
    [id |-> id, date |-> IF id = "t1" THEN 20251209 ELSE 20251208,
     compte |-> Compte("1", solde)]

\* The result sets the backend may return when it reports the balances
\* soldes: the accounts "1", ..., each with any of the balances,
CompteRows(soldes) ==
    UNION { { [i \in 1..n |-> Compte(ToString(i), balance[i])] :
                balance \in [1..n -> soldes] } : n \in 0..MaxComptes }

\* and the transactions in every order the backend may return them, with any
\* of the balances for their account.
TransactionOrders(soldes) ==
    { <<>> } \cup
    { [i \in 1..Len(ids) |-> Transaction(ids[i], balance)] :
        ids \in { <<"t1">>, <<"t2">>, <<"t1", "t2">>, <<"t2", "t1">> },
        balance \in soldes }
ListRows(q, soldes) ==
    IF q = GET_ALL_COMPTES THEN CompteRows(soldes) ELSE TransactionOrders(soldes)

\* The runs that do not look at the order of the rows see at most the
\* transaction "t1".
Rows(q, soldes) ==
    { rows \in ListRows(q, soldes) : \A i \in 1..Len(rows) : rows[i].id \notin {"t2"} }

\* Messages of the errors the transport or the backend may report.
ErrorMessages == {"Failed to fetch", "Compte introuvable"}

Undefined == [defined |-> FALSE, rows |-> <<>>]
Data(rows) == [defined |-> TRUE, rows |-> rows]

NoRequest == [sent |-> FALSE]
Request(variables) == [sent |-> TRUE, variables |-> variables]

Idle == [pc |-> "idle"]

\* window.alert texts
Alert(text) == <<text>>
AlertMontantInvalide == Alert("Veuillez entrer un montant valide")
AlertCompteRequis == Alert("Veuillez selectionner un compte")
AlertSoldeInvalide == Alert("Veuillez entrer un solde valide")
AlertCompteCree == Alert("Compte cree avec succes !")
AlertTransaction(type) ==
    Alert(IF type = "DEPOT" THEN "Depot effectue avec succes !"
                            ELSE "Retrait effectue avec succes !")

\* Faulty variant: a fixed text in place of the message of the error.
AlertErreur_Generic(message) == <<"Erreur : ", "Une erreur est survenue">>

\* alert('Erreur : ' + err.message)
AlertErreur(message) == <<"Erreur : ", message>>

\* Who can wait for a read: the useQuery of a mounted component, or the
\* refetchQueries binding of a write.
CompteListQuery == "CompteList.useQuery"
TransactionFormQuery == "TransactionForm.useQuery"
TransactionListQuery == "TransactionList.useQuery"
CreateCompteRefetch == "CreateCompte.refetchQueries"
TransactionFormRefetch == "TransactionForm.refetchQueries"

\* Faulty variants: a binding left out.
CC_refetchQueries_None == <<>>

TF_refetchQueries_TransactionsOnly == <<GET_ALL_TRANSACTIONS>>

\* refetchQueries of the two useMutation hooks, in their order.
CC_refetchQueries == <<GET_ALL_COMPTES>>
TF_refetchQueries == <<GET_ALL_TRANSACTIONS, GET_ALL_COMPTES>>

Range(seq) == {seq[i] : i \in 1..Len(seq)}

\* The reads a binding hands to the client, in order.
Issue(queries, by) == [i \in 1..Len(queries) |-> [query |-> queries[i], by |-> by]]

\* Faulty variant: a cache-first policy, a read is sent only when the cache
\* holds no result for its query.
Join_CacheFirst(fl, queries, by) ==
    [q \in Queries |-> IF q \in Range(queries) /\ ~cache[q].defined
                       THEN fl[q] \cup {by} ELSE fl[q]]

\* A read joins the request on the wire for its query (the client sends one
\* request per query at a time and every waiting reader receives its answer).
Join(fl, queries, by) ==
    [q \in Queries |-> IF q \in Range(queries) THEN fl[q] \cup {by} ELSE fl[q]]

-----------------------------------------------------------------------------
(* Initial state: the four components have mounted and rendered once *)

\* History of the reads, kept only in the runs that follow where the data on
\* display came from (Tracked); every other run leaves it Untracked.  Per
\* query, wire tells whether the request on the wire was sent after the
\* latest successful write ("new") or before it ("old"), and shown tells
\* where the latest result came from: a request sent after that write
\* ("new"), a request sent before it and answered from the backend's state
\* after it ("old") or before it ("stale").
Untracked == [tracked |-> FALSE]
Tracked ==
    [tracked |-> TRUE, written |-> FALSE,
     wire |-> [q \in Queries |-> "new"], shown |-> [q \in Queries |-> "none"]]

\* The components App renders, all of them on every render of the page
Components == {"CreateCompte", "CompteList", "TransactionForm", "TransactionList"}

InitPage ==
    /\ cc_solde = <<>>
    /\ cc_type = "COURANT"
    /\ cc_mutation = [loading |-> FALSE, error |-> "none"]
    /\ cc_request = NoRequest
    /\ cc_call = Idle
    /\ tf_type = "DEPOT"
    /\ tf_montant = <<>>
    /\ tf_compteId = ""
    /\ tf_mutation = [loading |-> FALSE, error |-> "none"]
    /\ tf_request = NoRequest
    /\ tf_call = Idle
    /\ tf_comptesData = Undefined
    /\ compteList = [loading |-> TRUE, error |-> "none", data |-> Undefined]
    /\ transactionList = [loading |-> TRUE, error |-> "none", data |-> Undefined]
    /\ inflight = [q \in Queries |->
                     IF q = GET_ALL_COMPTES
                     THEN {CompteListQuery, TransactionFormQuery}
                     ELSE {TransactionListQuery}]
    /\ cache = [q \in Queries |-> Undefined]
    /\ entities = [id \in CompteIds |-> "none"]
    /\ alerts = <<>>
    /\ issued = <<>>
    /\ mounted = Components
    /\ bubble = "none"

Init ==
    InitPage /\ origin = Untracked /\ timezoneOffset = 0 /\ locale = "fr-FR"

\* The same page, in a run that keeps the history of the reads
InitTracked ==
    InitPage /\ origin = Tracked /\ timezoneOffset = 0 /\ locale = "fr-FR"

\* The same page in a browser of any of the locales
InitLocales ==
    InitPage /\ origin = Untracked /\ timezoneOffset = 0 /\ locale \in {"fr-FR", "en-US"}

\* Time zones of a browser: Paris in winter, UTC, New York in winter
TimezoneOffsets == {-60, 0, 300}

\* The same page in a browser of any of these time zones
InitZones ==
    /\ InitPage /\ origin = Untracked
    /\ timezoneOffset \in TimezoneOffsets /\ locale = "fr-FR"

\* Faulty variant: the continuation is scheduled like any other event.
MicrotaskPending_Never == FALSE

\* A handler resumed by a settled promise runs before any other event.
MicrotaskPending ==
    \/ cc_call.pc \in {"resolved", "rejected"}
    \/ tf_call.pc \in {"resolved", "rejected"}

Quiet == alerts' = <<>> /\ issued' = <<>> /\ bubble' = "none"

-----------------------------------------------------------------------------
(* History of the requests; the actions below tell it what they did *)

\* The step has started, joined, or ended requests: a request started by
\* this step was sent after every write that has succeeded.
Sent(o) ==
    IF ~o.tracked THEN o
    ELSE [o EXCEPT !.wire =
            [q \in Queries |->
               IF inflight'[q] = {} THEN "none"
               ELSE IF inflight[q] = {} THEN "new" ELSE o.wire[q]]]

\* The step has completed a write: what is on display and what is on the
\* wire was sent before it; the reads bound to the write start a request
\* only where none is on the wire.
Written(o) ==
    IF ~o.tracked THEN o
    ELSE [tracked |-> TRUE, written |-> TRUE,
          wire |-> [q \in Queries |->
                      IF inflight'[q] = {} THEN "none"
                      ELSE IF inflight[q] = {} THEN "new" ELSE "old"],
          shown |-> [q \in Queries |->
                       IF o.shown[q] = "none" THEN "none" ELSE "stale"]]

\* The request for q is answered.  The backend may have computed the answer
\* of a request that was sent before the latest write before or after it.
Answered(o, q) ==
    IF ~o.tracked THEN {o}
    ELSE { [o EXCEPT !.wire[q] = "none", !.shown[q] = s] :
             s \in IF o.wire[q] = "old" THEN {"stale", "old"} ELSE {"new"} }

\* The browser checks the constraints of a number field on the decimal
\* value of its text, not on the double: a coefficient of the first
\* Precision digits that count (the leading zeros of the integer part do
\* not) and a power of ten, 0 below 10^-1023.
Precision == 18

DecimalOf(s) ==
    CHOOSE r \in
      { IF l.kind # "literal" THEN NaN
        ELSE CHOOSE t \in
               { CHOOSE u \in
                   { IF c = <<>> \/ q < -1023
                     THEN [kind |-> "num", neg |-> l.neg /\ c = <<>>,
                           mant |-> <<>>, scale |-> 0]
                     ELSE CHOOSE v \in
                            { [kind |-> "num", neg |-> l.neg,
                               mant |-> x.mant, scale |-> x.scale] :
                                x \in {Canon(c, q)} } : TRUE :
                       c \in {Strip(SubSeq(int \o l.frac, 1,
                                IF Len(int \o l.frac) > Precision
                                THEN Precision ELSE Len(int \o l.frac)))},
                       q \in {l.exp
                              - (IF Len(int) >= Precision THEN 0
                                 ELSE IF Len(l.frac) <= Precision - Len(int)
                                 THEN Len(l.frac)
                                 ELSE Precision - Len(int))
                              + (IF Len(int) > Precision
                                 THEN Len(int) - Precision ELSE 0)} } : TRUE :
                   int \in {Strip(l.int)} } : TRUE :
          l \in {StrDecimalLiteral(s, 1)} } : TRUE

\* a < b, for decimals a > 0 and b > 0: by the position of the first digit,
\* then by the first digit that differs.
LessPositive(a, b) ==
    LET ea == Len(a.mant) - a.scale
        eb == Len(b.mant) - b.scale
    IN  \/ ea < eb
        \/ /\ ea = eb
           /\ \E i \in 1..Len(b.mant) :
                /\ (IF i > Len(a.mant) THEN 0 ELSE a.mant[i]) < b.mant[i]
                /\ \A j \in 1..(i - 1) : j <= Len(a.mant) /\ a.mant[j] = b.mant[j]

\* rangeUnderflow: the value is below min, a decimal >= 0.
RangeUnderflow(n, min) ==
    /\ n.kind = "num"
    /\ IF IsZero(n) THEN ~IsZero(min)
       ELSE n.neg \/ (~IsZero(min) /\ LessPositive(n, min))

\* The digit at the p-th decimal place of n.
DecimalDigit(n, p) ==
    IF p > n.scale \/ Len(n.mant) - n.scale + p < 1 THEN 0
    ELSE n.mant[Len(n.mant) - n.scale + p]

\* stepMismatch for step 0.01 from a min that is a multiple of it: "no" for
\* a value of at most two decimals; with more decimals "yes" when the value
\* is at least 1e-9 away from every multiple of 0.01 and has at most 15
\* digits; else "browser": the value is not a multiple, and a browser that
\* allows for rounding errors (0.01 / 2^24 either side, and none counted
\* beyond 0.01 * 2^53) may report no mismatch.
StepMismatch(n) ==
    IF n.kind # "num" \/ n.scale <= 2 THEN "no"
    ELSE IF /\ Len(n.mant) <= 15
            /\ \E p \in 3..9 : DecimalDigit(n, p) # 0
            /\ \/ \E p \in 3..9 : DecimalDigit(n, p) # 9
               \/ n.scale <= 9
    THEN "yes"
    ELSE "browser"

\* Faulty variant: the form carries noValidate.
NoValidate_True == TRUE

\* <form onSubmit={handleSubmit}> has no noValidate attribute: the browser
\* validates the controls before it fires the submit event.
NoValidate == FALSE

\* What constraint validation can answer for <input type="number"
\* step="0.01" min=... required> whose value is text: invalid when the value
\* is missing or reads as no finite number, is below min or is off the step.
NumberFieldValidity(text, min) ==
    IF NoValidate THEN {TRUE}
    ELSE IF text = <<>> \/ parseFloat(text).kind # "num" THEN {FALSE}
    ELSE UNION { IF RangeUnderflow(n, min) THEN {FALSE}
                 ELSE IF StepMismatch(n) = "no" THEN {TRUE}
                 ELSE IF StepMismatch(n) = "yes" THEN {FALSE}
                 ELSE {TRUE, FALSE} :
                   n \in {DecimalOf(text)} }

\* if (...) { alert(...); return; }: a rejected submit ends at the alert
ReturnsAfterAlert(rejected) == rejected

-----------------------------------------------------------------------------
(* The cache of the client and the hooks that watch it *)

Ready(rows) == [loading |-> FALSE, error |-> "none", data |-> Data(rows)]
Failed(view, message) == [loading |-> FALSE, error |-> message, data |-> view.data]

\* The useQuery hook each component calls (CreateCompte calls none)
Hooks(component) ==
    CASE component = "CompteList" -> {CompteListQuery}
      [] component = "TransactionForm" -> {TransactionFormQuery}
      [] component = "TransactionList" -> {TransactionListQuery}
      [] OTHER -> {}

\* InMemoryCache is normalized: a result is stored as the list of the ids of
\* its rows under ROOT_QUERY and one object Compte:<id> per account, shared by
\* every result that names the account.  Merge gives the Compte objects once
\* the accounts of a result are written: the balance of each is replaced.
\* (A Transaction:<id> object never changes once written, and the object of
\* a row a write has created is in no list until a read brings the row with
\* all its fields: neither is kept.)
Merge(store, comptes) ==
    [id \in DOMAIN store |->
        IF \E compte \in comptes : compte.id = id
        THEN (CHOOSE compte \in comptes : compte.id = id).solde
        ELSE store[id]]

\* What the cache gives for query q: nothing before the first result of q,
\* then the rows of the latest result of q, each with the balance its
\* Compte object holds now.
ReadQuery(roots, store, q) ==
    IF ~roots[q].defined THEN Undefined
    ELSE Data([i \in 1..Len(roots[q].rows) |->
                 IF q = GET_ALL_COMPTES
                 THEN Compte(roots[q].rows[i], store[roots[q].rows[i]])
                 ELSE Transaction(roots[q].rows[i], store["1"])])

\* A step writes a result to the cache, which then holds roots and store.
\* The hook reader of query q, of a mounted component, receives data when the
\* step answers the request it waits for (answered = q), or, as a watcher of
\* the cache, when the write changes what the cache gives for q; a hook whose
\* own request is on the wire ignores the broadcasts of the cache until its
\* request is answered.
Delivered(q, reader, answered, roots, store) ==
    /\ \E component \in mounted : reader \in Hooks(component)
    /\ IF reader \in inflight[q] THEN answered = q
       ELSE /\ ReadQuery(roots, store, q).defined
            /\ ReadQuery(roots, store, q) # ReadQuery(cache, entities, q)

\* The cache after a write and what its watchers render: a hook the data is
\* delivered to is ready with what the cache gives for its query (for the
\* hooks that waited for the answered request, the answer).  The delivery,
\* which the client schedules right after the write, is part of the step.
Broadcast(answered, roots, store) ==
    /\ cache' = roots
    /\ entities' = store
    /\ compteList' =
          IF Delivered(GET_ALL_COMPTES, CompteListQuery, answered, roots, store)
          THEN Ready(ReadQuery(roots, store, GET_ALL_COMPTES).rows) ELSE compteList
    /\ tf_comptesData' =
          IF Delivered(GET_ALL_COMPTES, TransactionFormQuery, answered, roots, store)
          THEN ReadQuery(roots, store, GET_ALL_COMPTES) ELSE tf_comptesData
    /\ transactionList' =
          IF Delivered(GET_ALL_TRANSACTIONS, TransactionListQuery, answered, roots, store)
          THEN Ready(ReadQuery(roots, store, GET_ALL_TRANSACTIONS).rows)
          ELSE transactionList

-----------------------------------------------------------------------------
(* CreateCompte *)

\* onChange of the balance field: setSolde(e.target.value)
CC_setSolde(text) ==
    /\ ~MicrotaskPending
    /\ "CreateCompte" \in mounted
    /\ cc_solde' = NumberInputValue(text, locale)
    /\ Quiet
    /\ UNCHANGED <<cc_type, cc_mutation, cc_request, cc_call, tfVars, readVars, inflight, mounted, origin, timezoneOffset, locale>>

\* onChange of a kind radio: setType(e.target.value)
CC_setType(type) ==
    /\ ~MicrotaskPending
    /\ "CreateCompte" \in mounted
    /\ cc_type' = type
    /\ Quiet
    /\ UNCHANGED <<cc_solde, cc_mutation, cc_request, cc_call, tfVars, readVars, inflight, mounted, origin, timezoneOffset, locale>>

\* if (!solde || parseFloat(solde) < 0)
CC_soldeInvalide(solde) == solde = <<>> \/ LtZero(parseFloat(solde))

\* variables: { compte: { solde: parseFloat(solde), type } }
CC_variables(solde, type) == [solde |-> parseFloat(solde), type |-> type]

\* Faulty variant: the submit button is never disabled.
CC_submitDisabled_Never == FALSE

\* <button type="submit" disabled={loading}>
CC_submitDisabled == cc_mutation.loading

\* handleSubmit up to its await; it runs when the form's submit event fires.
CC_handleSubmit ==
    /\ issued' = <<>>
    /\ alerts' = IF CC_soldeInvalide(cc_solde) THEN <<AlertSoldeInvalide>> ELSE <<>>
    /\ IF ReturnsAfterAlert(CC_soldeInvalide(cc_solde))
       THEN UNCHANGED <<cc_mutation, cc_request, cc_call>>
       ELSE /\ cc_request' = Request(CC_variables(cc_solde, cc_type))
            /\ cc_mutation' = [loading |-> TRUE, error |-> "none"]
            /\ cc_call' = [pc |-> "awaiting"]
    /\ UNCHANGED <<cc_solde, cc_type, tfVars, readVars, inflight, mounted, origin, timezoneOffset, locale>>

\* min="0" of the balance field
SoldeMin == Num(FALSE, 0, 0)

\* The answers of the form's constraint validation: the balance field is its
\* only control with a constraint.
CC_checkValidity == NumberFieldValidity(cc_solde, SoldeMin)

\* A click on the enabled submit button, or Enter in the balance field: the
\* browser validates the form, and either fires the submit event, which
\* runs handleSubmit, or shows its message on the invalid control and fires
\* nothing.
CC_submit ==
    /\ ~MicrotaskPending
    /\ "CreateCompte" \in mounted
    /\ ~CC_submitDisabled
    /\ \E valid \in CC_checkValidity :
         IF valid
         THEN CC_handleSubmit /\ bubble' = "none"
         ELSE /\ bubble' = "solde"
              /\ alerts' = <<>> /\ issued' = <<>>
              /\ UNCHANGED <<ccVars, tfVars, readVars, inflight, mounted, origin, timezoneOffset, locale>>

\* The backend answers the write with the created account: the client writes
\* it to the cache (an object no list of the cache names, so that what the
\* cache gives its watchers stays as it is), hands the bound reads to the
\* network, then resolves the promise handleSubmit awaits.
CC_writeSucceeds ==
    /\ ~MicrotaskPending
    /\ cc_call.pc = "awaiting"
    /\ cc_request' = NoRequest
    /\ cc_mutation' = [loading |-> FALSE, error |-> "none"]
    /\ inflight' = Join(inflight, CC_refetchQueries, CreateCompteRefetch)
    /\ issued' = Issue(CC_refetchQueries, CreateCompteRefetch)
    /\ cc_call' = [pc |-> "resolved"]
    /\ alerts' = <<>>
    /\ UNCHANGED <<cc_solde, cc_type, tfVars, readVars, mounted>>
    /\ origin' = Written(origin)
    /\ UNCHANGED <<timezoneOffset, locale>>
    /\ bubble' = "none"

\* Faulty variant: a failed mutation is left loading.
MutationFailed_StillLoading(message) == [loading |-> TRUE, error |-> message]

\* The result useMutation renders when the mutation has failed
MutationFailed(message) == [loading |-> FALSE, error |-> message]

\* Faulty variant: the bound reads run after a failed write too.
RefetchOnError_All(queries) == queries

\* The reads bound to a write that the client runs when the write fails:
\* refetchQueries belongs to the completion of the mutation, a failed
\* mutation rejects before it.
RefetchOnError(queries) == <<>>

\* The write fails (transport or backend error): the promise rejects.
CC_writeFails(message) ==
    /\ ~MicrotaskPending
    /\ cc_call.pc = "awaiting"
    /\ cc_request' = NoRequest
    /\ cc_mutation' = MutationFailed(message)
    /\ cc_call' = [pc |-> "rejected", message |-> message]
    /\ inflight' = Join(inflight, RefetchOnError(CC_refetchQueries), CreateCompteRefetch)
    /\ issued' = Issue(RefetchOnError(CC_refetchQueries), CreateCompteRefetch)
    /\ alerts' = <<>>
    /\ origin' = Sent(origin)
    /\ UNCHANGED <<timezoneOffset, locale>>
    /\ UNCHANGED <<cc_solde, cc_type, tfVars, readVars, mounted>>
    /\ bubble' = "none"

\* Faulty variant: setType('COURANT') left out.
CC_resetFields_SoldeOnly == <<<<>>, cc_type>>

\* What the success path leaves in the fields: setSolde(''); setType('COURANT')
CC_resetFields == <<<<>>, "COURANT">>

\* handleSubmit after its await: the success path or the catch block.
CC_resume ==
    /\ cc_call.pc \in {"resolved", "rejected"}
    /\ IF cc_call.pc = "resolved"
       THEN /\ cc_solde' = CC_resetFields[1]
            /\ cc_type' = CC_resetFields[2]
            /\ alerts' = <<AlertCompteCree>>
       ELSE /\ alerts' = <<AlertErreur(cc_call.message)>>
            /\ UNCHANGED <<cc_solde, cc_type>>
    /\ cc_call' = Idle
    /\ issued' = <<>>
    /\ UNCHANGED <<cc_mutation, cc_request, tfVars, readVars, inflight, mounted, origin, timezoneOffset, locale>>
    /\ bubble' = "none"

-----------------------------------------------------------------------------
(* TransactionForm *)

\* onChange of a kind radio: setType(e.target.value)
TF_setType(type) ==
    /\ ~MicrotaskPending
    /\ "TransactionForm" \in mounted
    /\ tf_type' = type
    /\ Quiet
    /\ UNCHANGED <<tf_montant, tf_compteId, tf_mutation, tf_request, tf_call,
                   ccVars, readVars, inflight, mounted, origin, timezoneOffset, locale>>

\* Faulty variant: the options do not come from the result of the read.
TF_options_AllAccounts == {""} \cup CompteIds

\* The options of the account selector: the placeholder and one per account of
\* comptesData?.allComptes
TF_options ==
    {""} \cup {tf_comptesData.rows[i].id : i \in 1..Len(tf_comptesData.rows)}

\* onChange of the account selector: setCompteId(e.target.value)
TF_setCompteId(id) ==
    /\ ~MicrotaskPending
    /\ "TransactionForm" \in mounted
    /\ id \in TF_options
    /\ tf_compteId' = id
    /\ Quiet
    /\ UNCHANGED <<tf_type, tf_montant, tf_mutation, tf_request, tf_call,
                   ccVars, readVars, inflight, mounted, origin, timezoneOffset, locale>>

\* onChange of the amount field: setMontant(e.target.value)
TF_setMontant(text) ==
    /\ ~MicrotaskPending
    /\ "TransactionForm" \in mounted
    /\ tf_montant' = NumberInputValue(text, locale)
    /\ Quiet
    /\ UNCHANGED <<tf_type, tf_compteId, tf_mutation, tf_request, tf_call,
                   ccVars, readVars, inflight, mounted, origin, timezoneOffset, locale>>

\* if (!montant || parseFloat(montant) <= 0)
TF_montantInvalide(montant) == montant = <<>> \/ LeqZero(parseFloat(montant))

\* if (!compteId)
TF_compteManquant(compteId) == compteId = ""

\* The first failed check of handleSubmit, in the order of the code.
TF_validate(montant, compteId) ==
    IF TF_montantInvalide(montant) THEN "montant"
    ELSE IF TF_compteManquant(compteId) THEN "compte"
    ELSE "ok"

\* variables: { transactionRequest: { type, montant: parseFloat(montant), compteId } }
TF_variables(type, montant, compteId) ==
    [type |-> type, montant |-> parseFloat(montant), compteId |-> compteId]

\* <button type="submit" disabled={loading}>
TF_submitDisabled == tf_mutation.loading

\* handleSubmit up to its await; it runs when the form's submit event fires.
\* The closure keeps the type of the render it ran in.
TF_handleSubmit ==
    /\ issued' = <<>>
    /\ LET check == TF_validate(tf_montant, tf_compteId)
       IN  /\ alerts' = CASE check = "montant" -> <<AlertMontantInvalide>>
                           [] check = "compte" -> <<AlertCompteRequis>>
                           [] OTHER -> <<>>
           /\ IF ReturnsAfterAlert(check # "ok")
              THEN UNCHANGED <<tf_mutation, tf_request, tf_call>>
              ELSE /\ tf_request' = Request(TF_variables(tf_type, tf_montant, tf_compteId))
                   /\ tf_mutation' = [loading |-> TRUE, error |-> "none"]
                   /\ tf_call' = [pc |-> "awaiting", type |-> tf_type]
    /\ UNCHANGED <<tf_type, tf_montant, tf_compteId, ccVars, readVars, inflight, mounted, origin, timezoneOffset, locale>>

\* min="0.01" of the amount field
MontantMin == Num(FALSE, 1, 2)

\* The option the account selector shows: the one whose value is compteId,
\* the first one (the placeholder) when no option has that value.
TF_selectValue == IF tf_compteId \in TF_options THEN tf_compteId ELSE ""

\* The answers of the form's constraint validation: the selector is required,
\* and so is the amount field, with its min and step.
TF_checkValidity ==
    IF NoValidate THEN {TRUE}
    ELSE IF TF_selectValue = "" THEN {FALSE}
    ELSE NumberFieldValidity(tf_montant, MontantMin)

\* The first invalid control of the form, in tree order
TF_firstInvalid ==
    IF TF_selectValue = "" THEN "compteId" ELSE "montant"

\* A click on the enabled submit button, or Enter in the amount field: the
\* browser validates the form, and either fires the submit event, which
\* runs handleSubmit, or shows its message on the first invalid control and
\* fires nothing.
TF_submit ==
    /\ ~MicrotaskPending
    /\ "TransactionForm" \in mounted
    /\ ~TF_submitDisabled
    /\ \E valid \in TF_checkValidity :
         IF valid
         THEN TF_handleSubmit /\ bubble' = "none"
         ELSE /\ bubble' = TF_firstInvalid
              /\ alerts' = <<>> /\ issued' = <<>>
              /\ UNCHANGED <<ccVars, tfVars, readVars, inflight, mounted, origin, timezoneOffset, locale>>

\* The backend answers the write with the created transaction, whose
\* compte { id solde type } is the account of the request with the balance
\* solde: the client writes the result to the cache, whose watchers render
\* the balance, hands the bound reads to the network, then resolves the
\* promise handleSubmit awaits.
TF_writeSucceeds(solde) ==
    /\ ~MicrotaskPending
    /\ tf_call.pc = "awaiting"
    /\ Broadcast("none", cache,
                 Merge(entities, {Compte(tf_request.variables.compteId, solde)}))
    /\ tf_request' = NoRequest
    /\ tf_mutation' = [loading |-> FALSE, error |-> "none"]
    /\ inflight' = Join(inflight, TF_refetchQueries, TransactionFormRefetch)
    /\ issued' = Issue(TF_refetchQueries, TransactionFormRefetch)
    /\ tf_call' = [pc |-> "resolved", type |-> tf_call.type]
    /\ alerts' = <<>>
    /\ UNCHANGED <<tf_type, tf_montant, tf_compteId, ccVars, mounted>>
    /\ origin' = Written(origin)
    /\ UNCHANGED <<timezoneOffset, locale>>
    /\ bubble' = "none"

\* The write fails (transport or backend error): the promise rejects.
TF_writeFails(message) ==
    /\ ~MicrotaskPending
    /\ tf_call.pc = "awaiting"
    /\ tf_request' = NoRequest
    /\ tf_mutation' = MutationFailed(message)
    /\ tf_call' = [pc |-> "rejected", type |-> tf_call.type, message |-> message]
    /\ inflight' = Join(inflight, RefetchOnError(TF_refetchQueries), TransactionFormRefetch)
    /\ issued' = Issue(RefetchOnError(TF_refetchQueries), TransactionFormRefetch)
    /\ alerts' = <<>>
    /\ origin' = Sent(origin)
    /\ UNCHANGED <<timezoneOffset, locale>>
    /\ UNCHANGED <<tf_type, tf_montant, tf_compteId, ccVars, readVars, mounted>>
    /\ bubble' = "none"

\* Faulty variant: every field back to its initial value.
TF_resetFields_All == <<"DEPOT", <<>>, "">>

\* What the success path leaves in the fields: setMontant('')
TF_resetFields == <<tf_type, <<>>, tf_compteId>>

\* Faulty variant: the notice reads the kind selector when it is raised.
TF_noticeType_Current == tf_type

\* The type the success notice names: the one of the render handleSubmit was
\* called in, which its closure keeps across the await.
TF_noticeType == tf_call.type

\* handleSubmit after its await: the success path or the catch block.
TF_resume ==
    /\ tf_call.pc \in {"resolved", "rejected"}
    /\ IF tf_call.pc = "resolved"
       THEN /\ tf_type' = TF_resetFields[1]
            /\ tf_montant' = TF_resetFields[2]
            /\ tf_compteId' = TF_resetFields[3]
            /\ alerts' = <<AlertTransaction(TF_noticeType)>>
       ELSE /\ alerts' = <<AlertErreur(tf_call.message)>>
            /\ UNCHANGED <<tf_type, tf_montant, tf_compteId>>
    /\ tf_call' = Idle
    /\ issued' = <<>>
    /\ UNCHANGED <<tf_mutation, tf_request, ccVars, readVars, inflight, mounted, origin, timezoneOffset, locale>>
    /\ bubble' = "none"

-----------------------------------------------------------------------------
(* Reads: the answers of the backend reach the cache and the components *)

\* The request on the wire for query q is answered with rows: the result is
\* written to the cache and the components it is delivered to render it.
ReadSucceeds(q, rows) ==
    /\ ~MicrotaskPending
    /\ inflight[q] # {}
    /\ inflight' = [inflight EXCEPT ![q] = {}]
    /\ Broadcast(q, [cache EXCEPT ![q] = Data([i \in 1..Len(rows) |-> rows[i].id])],
                 Merge(entities, IF q = GET_ALL_COMPTES THEN Range(rows)
                                 ELSE {rows[i].compte : i \in 1..Len(rows)}))
    /\ Quiet
    /\ UNCHANGED <<ccVars, tfVars, mounted>>
    /\ origin' \in Answered(origin, q)
    /\ UNCHANGED <<timezoneOffset, locale>>

\* Faulty variant: the error reaches every read component.
ErrorReaches_All(q, reader) == TRUE

\* The error of a failed request reaches the hooks that wait for it.
ErrorReaches(q, reader) == reader \in inflight[q]

\* Faulty variant: a retry link sends the failed request again.
Retried_All(q) == inflight[q]

\* The readers whose failed request the client sends again: the link of the
\* client is the HTTP link alone, nothing is retried.
Retried(q) == {}

\* The request on the wire for query q fails: the useQuery hooks waiting for
\* it get the error; TransactionForm reads only data from its hook.
ReadFails(q, message) ==
    /\ ~MicrotaskPending
    /\ inflight[q] # {}
    /\ inflight' = [inflight EXCEPT ![q] = Retried(q)]
    /\ compteList' = IF ErrorReaches(q, CompteListQuery)
                     THEN Failed(compteList, message) ELSE compteList
    /\ transactionList' = IF ErrorReaches(q, TransactionListQuery)
                          THEN Failed(transactionList, message) ELSE transactionList
    /\ Quiet
    /\ UNCHANGED <<tf_comptesData, cache, entities, ccVars, tfVars, mounted>>
    /\ origin' = Sent(origin)
    /\ UNCHANGED <<timezoneOffset, locale>>

-----------------------------------------------------------------------------
(* CompteList and TransactionList: what a render shows, and the refresh button *)

\* The hundredths of |n|, the exact value of the double rounded half up.  A
\* decimal of at most two decimals below 10^13 and its double have the same
\* hundredths (the double is within 1/1024 of it).
Hundredths(n) ==
    IF n.scale <= 2 /\ Len(n.mant) - n.scale <= 13 THEN n.mant \o Zeros(2 - n.scale)
    ELSE CHOOSE r \in
           { IF x.s <= 2 THEN x.e \o Zeros(2 - x.s)
             ELSE IF Len(x.e) < x.s - 2 THEN <<>>
             ELSE IF x.e[Len(x.e) - x.s + 3] >= 5
             THEN Increment(SubSeq(x.e, 1, Len(x.e) - x.s + 2))
             ELSE SubSeq(x.e, 1, Len(x.e) - x.s + 2) :
               x \in { CHOOSE y \in { ExactDecimal(b.m, b.k) :
                                        b \in {ToBinary(n.mant, 0 - n.scale)} }
                         : TRUE } } : TRUE

\* Number.prototype.toFixed(2): NaN and the infinities by name, a number
\* from 1e21 on as Number::toString writes it (a digit, the others after a
\* ".", e+ and the exponent), any other with two decimals, the exact value
\* of the double rounded half up, after "-" when below 0.
toFixed2(n) ==
    CHOOSE r \in
      { IF x.kind = "NaN" THEN <<"N", "a", "N">>
        ELSE (IF x.neg /\ ~IsZero(x) THEN <<"-">> ELSE <<>>)
             \o (IF x.kind = "Infinity"
                 THEN <<"I", "n", "f", "i", "n", "i", "t", "y">>
                 ELSE IF Len(x.mant) - x.scale >= 22
                 THEN <<ToString(x.mant[1])>>
                      \o (IF Len(x.mant) > 1
                          THEN <<".">>
                               \o DigitsText(SubSeq(x.mant, 2, Len(x.mant)))
                          ELSE <<>>)
                      \o <<"e", "+">>
                      \o DigitsText(IntDigits(Len(x.mant) - x.scale - 1))
                 ELSE CHOOSE t \in
                        { IF Len(h) <= 2
                          THEN <<"0", ".">> \o DigitsText(Zeros(2 - Len(h)) \o h)
                          ELSE DigitsText(SubSeq(h, 1, Len(h) - 2)) \o <<".">>
                               \o DigitsText(SubSeq(h, Len(h) - 1, Len(h))) :
                            h \in {Hundredths(x)} } : TRUE) :
          x \in {n} } : TRUE

\* One account card: key={compte.id}, the kind of the account and
\* {compte.solde.toFixed(2)}
CompteCard(compte) ==
    [id |-> compte.id, type |-> compte.type, solde |-> toFixed2(compte.solde)]

\* The day before the date yyyymmdd
PreviousDay(date) ==
    LET y == date \div 10000
        m == (date \div 100) % 100
        d == date % 100
    IN  IF d > 1 THEN date - 1
        ELSE IF m > 1
        THEN y * 10000 + (m - 1) * 100
             + (CASE m - 1 = 2 ->
                       IF (y % 4 = 0 /\ y % 100 # 0) \/ y % 400 = 0 THEN 29 ELSE 28
                  [] m - 1 \in {4, 6, 9, 11} -> 30
                  [] OTHER -> 31)
        ELSE (y - 1) * 10000 + 1231

\* new Date(date).toLocaleDateString('fr-FR') for a date-only string: the
\* string is read as midnight UTC and the day is printed in local time,
\* which is the day before to the west of UTC (offset > 0).
toLocaleDateString(date, offset) ==
    IF offset > 0 THEN PreviousDay(date) ELSE date

\* One transaction card: key={transaction.id}, the date it shows, and of the
\* account of the transaction its kind and Solde: {compte.solde.toFixed(2)}
TransactionCard(transaction) ==
    [id |-> transaction.id,
     date |-> toLocaleDateString(transaction.date, timezoneOffset),
     type |-> transaction.compte.type,
     solde |-> toFixed2(transaction.compte.solde)]

\* Faulty variant: no early return on error, the rows of the last result stay.
ListView_RowsOnError(hook, unit, cards) ==
    IF hook.loading
    THEN [kind |-> "loading", message |-> "", label |-> <<>>, cards |-> <<>>,
          refresh |-> FALSE]
    ELSE IF hook.error # "none"
    THEN [kind |-> "error", message |-> hook.error, label |-> <<>>,
          cards |-> cards, refresh |-> FALSE]
    ELSE [kind |-> "ready", message |-> "",
          label |-> <<"Total: ", Len(hook.data.rows), unit>>,
          cards |-> cards, refresh |-> TRUE]

\* The render of a read component from the result of its useQuery hook:
\* if (loading) return the spinner; if (error) return error.message; else the
\* count label, the refresh button and the cards (cards: what the map over
\* the rows of data gives).  Reading data.allComptes of an undefined data
\* throws.
ListView(hook, unit, cards) ==
    IF hook.loading
    THEN [kind |-> "loading", message |-> "", label |-> <<>>, cards |-> <<>>,
          refresh |-> FALSE]
    ELSE IF hook.error # "none"
    THEN [kind |-> "error", message |-> hook.error, label |-> <<>>,
          cards |-> <<>>, refresh |-> FALSE]
    ELSE IF ~hook.data.defined
    THEN [kind |-> "TypeError", message |-> "", label |-> <<>>, cards |-> <<>>,
          refresh |-> FALSE]
    ELSE [kind |-> "ready", message |-> "",
          label |-> <<"Total: ", Len(hook.data.rows), unit>>,
          cards |-> cards, refresh |-> TRUE]

\* data.allComptes.map(...) and data.allTransactions.map(...): one card per
\* row, in the order of the result.
CompteListView ==
    ListView(compteList, " compte(s)",
             [i \in 1..Len(compteList.data.rows) |-> CompteCard(compteList.data.rows[i])])
TransactionListView ==
    ListView(transactionList, " transaction(s)",
             [i \in 1..Len(transactionList.data.rows) |->
                TransactionCard(transactionList.data.rows[i])])

\* Faulty variant: the hook reports the refetch as loading.
NotifyOnNetworkStatusChange_True == TRUE

\* useQuery is called without options and defaultOptions sets only
\* fetchPolicy: a refetch does not re-render the component as loading.
NotifyOnNetworkStatusChange == FALSE

Refetching(hook) ==
    IF NotifyOnNetworkStatusChange THEN [hook EXCEPT !.loading = TRUE] ELSE hook

\* Faulty variant: the click starts the read twice.
RefetchReads_Twice(query, by) == Issue(<<query, query>>, by)

\* onClick={() => refetch()}: one read of the component's own query
RefetchReads(query, by) == Issue(<<query>>, by)

\* A click on the refresh button of CompteList, which only the ready view has.
CL_refetch ==
    /\ ~MicrotaskPending
    /\ "CompteList" \in mounted
    /\ CompteListView.refresh
    /\ issued' = RefetchReads(GET_ALL_COMPTES, CompteListQuery)
    /\ inflight' = Join(inflight, <<GET_ALL_COMPTES>>, CompteListQuery)
    /\ compteList' = Refetching(compteList)
    /\ alerts' = <<>>
    /\ UNCHANGED <<ccVars, tfVars, tf_comptesData, transactionList, cache, entities, mounted>>
    /\ origin' = Sent(origin)
    /\ UNCHANGED <<timezoneOffset, locale>>
    /\ bubble' = "none"

\* A click on the refresh button of TransactionList, which only the ready view has.
TL_refetch ==
    /\ ~MicrotaskPending
    /\ "TransactionList" \in mounted
    /\ TransactionListView.refresh
    /\ issued' = RefetchReads(GET_ALL_TRANSACTIONS, TransactionListQuery)
    /\ inflight' = Join(inflight, <<GET_ALL_TRANSACTIONS>>, TransactionListQuery)
    /\ transactionList' = Refetching(transactionList)
    /\ alerts' = <<>>
    /\ UNCHANGED <<ccVars, tfVars, tf_comptesData, compteList, cache, entities, mounted>>
    /\ origin' = Sent(origin)
    /\ UNCHANGED <<timezoneOffset, locale>>
    /\ bubble' = "none"

\* A component is removed from the page (the root is unmounted): its hooks
\* unsubscribe from their queries, a request nobody waits for any more is
\* cancelled.  A write on the wire and the handleSubmit call that awaits it
\* belong to the client and to the promise: they go on.
Unmount(component) ==
    /\ ~MicrotaskPending
    /\ component \in mounted
    /\ mounted' = mounted \ {component}
    /\ inflight' = [q \in Queries |-> inflight[q] \ Hooks(component)]
    /\ Quiet
    /\ UNCHANGED <<ccVars, tfVars, readVars>>
    /\ origin' = Sent(origin)
    /\ UNCHANGED <<timezoneOffset, locale>>

-----------------------------------------------------------------------------
(* Specifications *)

CCNext ==
    \/ \E text \in TypedTexts : CC_setSolde(text)
    \/ \E type \in TypeCompte : CC_setType(type)
    \/ CC_submit
    \/ CC_writeSucceeds
    \/ \E message \in ErrorMessages : CC_writeFails(message)
    \/ CC_resume

TFNext ==
    \/ \E type \in TypeTransaction : TF_setType(type)
    \/ \E id \in CompteIds \cup {""} : TF_setCompteId(id)
    \/ \E text \in TypedTexts : TF_setMontant(text)
    \/ TF_submit
    \/ \E solde \in {Solde} : TF_writeSucceeds(solde)
    \/ \E message \in ErrorMessages : TF_writeFails(message)
    \/ TF_resume

ReadNext ==
    \/ \E q \in Queries : \E rows \in Rows(q, {Solde}) : ReadSucceeds(q, rows)
    \/ \E q \in Queries : \E message \in ErrorMessages : ReadFails(q, message)

RefreshNext == CL_refetch \/ TL_refetch

Next == CCNext \/ TFNext \/ ReadNext \/ RefreshNext

Spec == Init /\ [][Next]_vars

\* Both forms with the reads, the user typing only a valid amount or balance
SubmittedTexts == { <<"0", ".", "5">> }

WritesNext ==
    \/ \E text \in SubmittedTexts : CC_setSolde(text)
    \/ \E type \in TypeCompte : CC_setType(type)
    \/ CC_submit
    \/ CC_writeSucceeds
    \/ \E message \in ErrorMessages : CC_writeFails(message)
    \/ CC_resume
    \/ \E type \in TypeTransaction : TF_setType(type)
    \/ \E id \in CompteIds \cup {""} : TF_setCompteId(id)
    \/ \E text \in SubmittedTexts : TF_setMontant(text)
    \/ TF_submit
    \/ \E solde \in {Solde} : TF_writeSucceeds(solde)
    \/ \E message \in ErrorMessages : TF_writeFails(message)
    \/ TF_resume
    \/ ReadNext

SpecWrites == Init /\ [][WritesNext]_vars

\* The Account Creator alone with the reads
SpecCC == InitLocales /\ [][CCNext \/ ReadNext]_vars

\* The Transaction Form alone with the reads
SpecTF == InitLocales /\ [][TFNext \/ ReadNext]_vars

\* The read components with their refresh buttons, the backend returning the
\* transactions in any order, and the Transaction Form, whose write is bound
\* to both reads, submitting a valid write
ReadsNext ==
    \/ CL_refetch
    \/ TL_refetch
    \/ \E q \in Queries : \E rows \in ListRows(q, {Solde}) : ReadSucceeds(q, rows)
    \/ \E q \in Queries : \E message \in ErrorMessages : ReadFails(q, message)
    \/ \E id \in CompteIds : TF_setCompteId(id)
    \/ \E text \in SubmittedTexts : TF_setMontant(text)
    \/ TF_submit
    \/ \E solde \in {Solde} : TF_writeSucceeds(solde)
    \/ \E message \in ErrorMessages : TF_writeFails(message)
    \/ TF_resume

SpecReads == InitZones /\ [][ReadsNext]_vars

\* The read components with their refresh buttons and the Transaction Form
\* submitting a valid write, the backend reporting any of the balances with
\* every result
CacheNext ==
    \/ CL_refetch
    \/ TL_refetch
    \/ \E q \in Queries : \E rows \in Rows(q, Soldes) : ReadSucceeds(q, rows)
    \/ \E q \in Queries : \E message \in ErrorMessages : ReadFails(q, message)
    \/ \E id \in CompteIds : TF_setCompteId(id)
    \/ \E text \in SubmittedTexts : TF_setMontant(text)
    \/ TF_submit
    \/ \E solde \in Soldes : TF_writeSucceeds(solde)
    \/ \E message \in ErrorMessages : TF_writeFails(message)
    \/ TF_resume

SpecCache == Init /\ [][CacheNext]_vars

\* The Transaction Form and the reads, with components leaving the page
UnmountNext ==
    \/ \E component \in Components : Unmount(component)
    \/ \E q \in Queries : \E rows \in Rows(q, {Solde}) : ReadSucceeds(q, rows)
    \/ \E q \in Queries : \E message \in ErrorMessages : ReadFails(q, message)
    \/ \E id \in CompteIds : TF_setCompteId(id)
    \/ \E text \in SubmittedTexts : TF_setMontant(text)
    \/ TF_submit
    \/ \E solde \in {Solde} : TF_writeSucceeds(solde)
    \/ \E message \in ErrorMessages : TF_writeFails(message)
    \/ TF_resume

SpecUnmount == Init /\ [][UnmountNext]_vars

\* The read components with their refresh buttons and the Transaction Form,
\* every request answered successfully, with the history of the reads
FreshNext ==
    \/ CL_refetch
    \/ TL_refetch
    \/ \E q \in Queries : \E rows \in Rows(q, {Solde}) : ReadSucceeds(q, rows)
    \/ \E id \in CompteIds : TF_setCompteId(id)
    \/ \E text \in SubmittedTexts : TF_setMontant(text)
    \/ TF_submit
    \/ \E solde \in {Solde} : TF_writeSucceeds(solde)
    \/ TF_resume

SpecFresh == InitTracked /\ [][FreshNext]_vars

\* Both forms, the user typing an amount or balance that is below the
\* minimum of its field, off its step or neither, the accounts read answered
\* with one account
RejectedTexts == { <<"-", "5">>, <<"0", ".", "0", "0", "5">>, <<"5">> }

FormsNext ==
    \/ \E text \in RejectedTexts : CC_setSolde(text)
    \/ \E type \in TypeCompte : CC_setType(type)
    \/ CC_submit
    \/ CC_writeSucceeds
    \/ \E message \in ErrorMessages : CC_writeFails(message)
    \/ CC_resume
    \/ \E type \in TypeTransaction : TF_setType(type)
    \/ \E id \in {"", "1"} : TF_setCompteId(id)
    \/ \E text \in RejectedTexts : TF_setMontant(text)
    \/ TF_submit
    \/ \E solde \in {Solde} : TF_writeSucceeds(solde)
    \/ \E message \in ErrorMessages : TF_writeFails(message)
    \/ TF_resume
    \/ \E q \in Queries :
          ReadSucceeds(q, IF q = GET_ALL_COMPTES THEN <<Compte("1", Solde)>> ELSE <<>>)

SpecForms == Init /\ [][FormsNext]_vars

\* Both forms submitting valid writes, with a backend that answers every
\* write and an event loop that runs every continuation
LiveNext ==
    \/ \E text \in SubmittedTexts : CC_setSolde(text)
    \/ CC_submit
    \/ CC_writeSucceeds
    \/ \E message \in ErrorMessages : CC_writeFails(message)
    \/ CC_resume
    \/ \E id \in {"1"} : TF_setCompteId(id)
    \/ \E text \in SubmittedTexts : TF_setMontant(text)
    \/ TF_submit
    \/ \E solde \in {Solde} : TF_writeSucceeds(solde)
    \/ \E message \in ErrorMessages : TF_writeFails(message)
    \/ TF_resume
    \/ \E q \in Queries :
          ReadSucceeds(q, IF q = GET_ALL_COMPTES THEN <<Compte("1", Solde)>> ELSE <<>>)

CC_writeSettles == CC_writeSucceeds \/ \E message \in ErrorMessages : CC_writeFails(message)
TF_writeSettles ==
    \/ \E solde \in {Solde} : TF_writeSucceeds(solde)
    \/ \E message \in ErrorMessages : TF_writeFails(message)

SpecLive ==
    /\ Init /\ [][LiveNext]_vars
    /\ SF_vars(CC_writeSettles) /\ SF_vars(TF_writeSettles)
    /\ WF_vars(CC_resume) /\ WF_vars(TF_resume)

-----------------------------------------------------------------------------
(* Properties *)

\* C1: every Transaction Form submit (a click on its submit control, or
\* Enter in a field) whose amount field is empty or parses to a value <= 0
\* sends no Record transaction write and raises exactly the 'invalid amount'
\* notice, whatever the kind and the account selection are.
C1_InvalidAmountRejected ==
    [][ (TF_submit /\ (tf_montant = <<>> \/ LeqZero(parseFloat(tf_montant))))
        => /\ tf_request = NoRequest
           /\ tf_request' = NoRequest
           /\ ~tf_mutation'.loading
           /\ alerts' = <<Alert("Veuillez entrer un montant valide")>> ]_vars

\* C2: every Transaction Form submit (a click on its submit control, or
\* Enter in a field) with a valid amount and no account selected sends no
\* write and raises exactly the 'no account selected' notice;
\* a submit with an invalid amount and no account raises only the 'invalid
\* amount' notice (the amount is checked first).
C2_AccountCheckedSecond ==
    [][ (TF_submit /\ tf_compteId = "")
        => /\ tf_request' = NoRequest
           /\ ~tf_mutation'.loading
           /\ alerts' =
                IF tf_montant # <<>> /\ GtZero(parseFloat(tf_montant))
                THEN <<Alert("Veuillez selectionner un compte")>>
                ELSE <<Alert("Veuillez entrer un montant valide")>> ]_vars

\* C3: every Account Creator submit (a click on its submit control, or
\* Enter in the balance field) whose balance field is empty or parses to a
\* value < 0 sends no Create account write and raises exactly the 'invalid
\* balance' notice.
C3_InvalidBalanceRejected ==
    [][ (CC_submit /\ (cc_solde = <<>> \/ LtZero(parseFloat(cc_solde))))
        => /\ cc_request = NoRequest
           /\ cc_request' = NoRequest
           /\ ~cc_mutation'.loading
           /\ alerts' = <<Alert("Veuillez entrer un solde valide")>> ]_vars

\* C4: every Record transaction write on the wire carries a number > 0, a
\* non-empty account id and a kind in {DEPOT, RETRAIT}, and at the submit that
\* sends it each of them is what the form's fields hold; this for every text
\* typed into the amount field, text that is no number included.
C4_TransactionWriteWellFormed ==
    /\ [](tf_request.sent =>
            /\ tf_request.variables.montant.kind = "num"
            /\ GtZero(tf_request.variables.montant)
            /\ tf_request.variables.compteId # ""
            /\ tf_request.variables.type \in {"DEPOT", "RETRAIT"})
    /\ [][ (~tf_request.sent /\ tf_request'.sent)
           => /\ tf_request'.variables.type = tf_type
              /\ tf_request'.variables.compteId = tf_compteId
              /\ tf_request'.variables.montant = parseFloat(tf_montant)
              /\ isValidFloatingPointNumber(tf_montant) ]_vars

C4_Witness ==
    /\ tf_request.sent
    /\ tf_request.variables =
         [type |-> "RETRAIT", montant |-> Num(FALSE, 5, 1), compteId |-> "2"]

\* C5: every Create account write on the wire carries a number >= 0 and a
\* kind in {COURANT, EPARGNE}, and at the submit that sends it each of them is
\* what the form's fields hold; this for every text typed into the balance
\* field, text that is no number included.
C5_CompteWriteWellFormed ==
    /\ [](cc_request.sent =>
            /\ cc_request.variables.solde.kind = "num"
            /\ GeqZero(cc_request.variables.solde)
            /\ cc_request.variables.type \in {"COURANT", "EPARGNE"})
    /\ [][ (~cc_request.sent /\ cc_request'.sent)
           => /\ cc_request'.variables.type = cc_type
              /\ cc_request'.variables.solde = parseFloat(cc_solde)
              /\ isValidFloatingPointNumber(cc_solde) ]_vars

C5_Witness ==
    /\ cc_request.sent
    /\ cc_request.variables = [solde |-> Num(FALSE, 0, 0), type |-> "EPARGNE"]

\* C6: the step in which a write succeeds hands to the client exactly the
\* reads bound to that write: 'List accounts' for Create account, 'List all
\* transactions' then 'List accounts' for Record transaction; no other step
\* issues a read on behalf of a binding.
C6_RefetchBindings ==
    [][ LET ccSucceeds == cc_request.sent /\ ~cc_request'.sent
                            /\ cc_mutation'.error = "none"
            tfSucceeds == tf_request.sent /\ ~tf_request'.sent
                            /\ tf_mutation'.error = "none"
        IN  /\ ccSucceeds =>
                 /\ issued' = <<[query |-> "GET_ALL_COMPTES",
                                 by |-> "CreateCompte.refetchQueries"]>>
                 /\ "CreateCompte.refetchQueries" \in inflight'["GET_ALL_COMPTES"]
                 /\ "CreateCompte.refetchQueries" \notin inflight'["GET_ALL_TRANSACTIONS"]
            /\ tfSucceeds =>
                 /\ issued' = <<[query |-> "GET_ALL_TRANSACTIONS",
                                 by |-> "TransactionForm.refetchQueries"],
                                [query |-> "GET_ALL_COMPTES",
                                 by |-> "TransactionForm.refetchQueries"]>>
                 /\ "TransactionForm.refetchQueries" \in inflight'["GET_ALL_TRANSACTIONS"]
                 /\ "TransactionForm.refetchQueries" \in inflight'["GET_ALL_COMPTES"]
            /\ (~ccSucceeds /\ ~tfSucceeds) => issued' = <<>> ]_vars

C6_Witness ==
    /\ issued = <<[query |-> "GET_ALL_TRANSACTIONS", by |-> "TransactionForm.refetchQueries"],
                  [query |-> "GET_ALL_COMPTES", by |-> "TransactionForm.refetchQueries"]>>
    /\ "CreateCompte.refetchQueries" \in inflight["GET_ALL_COMPTES"]
    /\ "TransactionForm.refetchQueries" \in inflight["GET_ALL_TRANSACTIONS"]

\* C7: the step that reports a successful write to its form (fields reset,
\* success notice) starts in a state where the write has left the wire and its
\* bound reads have just been issued and are on the wire.
C7_RefetchBeforeReport ==
    [][ /\ alerts' = <<Alert("Compte cree avec succes !")>> =>
             /\ ~cc_request.sent
             /\ ~cc_mutation.loading
             /\ issued = <<[query |-> "GET_ALL_COMPTES",
                            by |-> "CreateCompte.refetchQueries"]>>
             /\ "CreateCompte.refetchQueries" \in inflight["GET_ALL_COMPTES"]
             /\ alerts = <<>>
        /\ alerts' \in {<<Alert("Depot effectue avec succes !")>>,
                        <<Alert("Retrait effectue avec succes !")>>} =>
             /\ ~tf_request.sent
             /\ ~tf_mutation.loading
             /\ issued = <<[query |-> "GET_ALL_TRANSACTIONS",
                            by |-> "TransactionForm.refetchQueries"],
                           [query |-> "GET_ALL_COMPTES",
                            by |-> "TransactionForm.refetchQueries"]>>
             /\ "TransactionForm.refetchQueries" \in inflight["GET_ALL_TRANSACTIONS"]
             /\ "TransactionForm.refetchQueries" \in inflight["GET_ALL_COMPTES"]
             /\ alerts = <<>> ]_vars

C7_Witness ==
    /\ cc_call.pc = "resolved"
    /\ cc_solde # <<>>
    /\ alerts = <<>>
    /\ issued = <<[query |-> "GET_ALL_COMPTES", by |-> "CreateCompte.refetchQueries"]>>
    /\ "CreateCompte.refetchQueries" \in inflight["GET_ALL_COMPTES"]

\* C8: whenever a success notice is on display, every read bound to that write
\* is still on the wire: the notice never waits for a refetch to settle, and
\* both outcomes of each refetch are still possible.
C8_NoticeBeforeRefetchSettles ==
    /\ alerts \in {<<Alert("Depot effectue avec succes !")>>,
                   <<Alert("Retrait effectue avec succes !")>>} =>
          /\ "TransactionForm.refetchQueries" \in inflight["GET_ALL_TRANSACTIONS"]
          /\ "TransactionForm.refetchQueries" \in inflight["GET_ALL_COMPTES"]
          /\ \A q \in Queries :
                /\ ENABLED ReadFails(q, "Failed to fetch")
                /\ ENABLED ReadSucceeds(q, <<>>)
    /\ alerts = <<Alert("Compte cree avec succes !")>> =>
          /\ "CreateCompte.refetchQueries" \in inflight["GET_ALL_COMPTES"]
          /\ ENABLED ReadFails("GET_ALL_COMPTES", "Failed to fetch")
          /\ ENABLED ReadSucceeds("GET_ALL_COMPTES", <<>>)

C8_Witness ==
    /\ alerts = <<Alert("Depot effectue avec succes !")>>
    /\ tf_montant = <<>>
    /\ "TransactionForm.refetchQueries" \in inflight["GET_ALL_TRANSACTIONS"]
    /\ "TransactionForm.refetchQueries" \in inflight["GET_ALL_COMPTES"]

\* C9: a Create account submit with a balance >= 0 (0 included) is sent, and
\* the step that reports its success leaves the balance field empty and the
\* kind selector on COURANT, whatever kind was submitted or selected since.
C9_CreateResetsForm ==
    [][ /\ (CC_submit /\ cc_solde # <<>> /\ GeqZero(parseFloat(cc_solde)))
             => cc_request'.sent
        /\ alerts' = <<Alert("Compte cree avec succes !")>>
             => (cc_solde' = <<>> /\ cc_type' = "COURANT")
        /\ (cc_call.pc = "resolved" /\ cc_call'.pc = "idle")
             => alerts' = <<Alert("Compte cree avec succes !")>> ]_vars

C9_Witness ==
    /\ alerts = <<Alert("Compte cree avec succes !")>>
    /\ cc_solde = <<>>
    /\ cc_type = "COURANT"
    /\ cc_call.pc = "idle"

\* C10: the step that reports a successful Record transaction empties the
\* amount field and leaves the selected account and the selected kind as they
\* were.
C10_TransactionResetsAmountOnly ==
    [][ /\ alerts' \in {<<Alert("Depot effectue avec succes !")>>,
                        <<Alert("Retrait effectue avec succes !")>>}
             => /\ tf_montant' = <<>>
                /\ tf_compteId' = tf_compteId
                /\ tf_type' = tf_type
        /\ (tf_call.pc = "resolved" /\ tf_call'.pc = "idle")
             => alerts' \in {<<Alert("Depot effectue avec succes !")>>,
                             <<Alert("Retrait effectue avec succes !")>>} ]_vars

C10_Witness ==
    /\ alerts = <<Alert("Retrait effectue avec succes !")>>
    /\ tf_montant = <<>>
    /\ tf_compteId = "2"
    /\ tf_type = "RETRAIT"

\* C11 as stated: when a write fails, the form surfaces the message of the
\* error as reported and every field of the form holds the value it had at
\* submit, the value the failed write carried; no success notice is raised.
C11_FieldsAsSubmitted ==
    [][ /\ (cc_request.sent /\ ~cc_request'.sent /\ cc_mutation'.error # "none")
             => /\ cc_call'.message = cc_mutation'.error
                /\ cc_type' = cc_request.variables.type
                /\ parseFloat(cc_solde') = cc_request.variables.solde
                /\ alerts' = <<>>
        /\ (tf_request.sent /\ ~tf_request'.sent /\ tf_mutation'.error # "none")
             => /\ tf_call'.message = tf_mutation'.error
                /\ tf_type' = tf_request.variables.type
                /\ tf_compteId' = tf_request.variables.compteId
                /\ parseFloat(tf_montant') = tf_request.variables.montant
                /\ alerts' = <<>> ]_vars

\* C11, amended: when a write fails, the step in which it fails and the step
\* that reports the failure leave every field of its form as it is (the form
\* is not cleared); the form then shows the message of the error as reported,
\* in the notice and inline, and the step raises no success notice.  The
\* write carries the values the fields hold at submit, and from the submit to
\* the report of the failure a field changes only in a step in which the user
\* edits that field, which the form allows while the write is on the wire.
C11_FailedWriteKeepsInput ==
    [][ /\ (cc_request.sent /\ ~cc_request'.sent /\ cc_mutation'.error # "none")
             => /\ cc_call'.pc = "rejected"
                /\ cc_call'.message = cc_mutation'.error
                /\ cc_call'.message \in {"Failed to fetch", "Compte introuvable"}
                /\ <<cc_solde', cc_type'>> = <<cc_solde, cc_type>>
                /\ alerts' = <<>>
        /\ cc_call.pc = "rejected"
             => /\ alerts' = << <<"Erreur : ", cc_call.message>> >>
                /\ cc_mutation'.error = cc_call.message
                /\ <<cc_solde', cc_type'>> = <<cc_solde, cc_type>>
                /\ cc_call'.pc = "idle"
        /\ (tf_request.sent /\ ~tf_request'.sent /\ tf_mutation'.error # "none")
             => /\ tf_call'.pc = "rejected"
                /\ tf_call'.message = tf_mutation'.error
                /\ tf_call'.message \in {"Failed to fetch", "Compte introuvable"}
                /\ <<tf_type', tf_montant', tf_compteId'>> = <<tf_type, tf_montant, tf_compteId>>
                /\ alerts' = <<>>
        /\ tf_call.pc = "rejected"
             => /\ alerts' = << <<"Erreur : ", tf_call.message>> >>
                /\ tf_mutation'.error = tf_call.message
                /\ <<tf_type', tf_montant', tf_compteId'>> = <<tf_type, tf_montant, tf_compteId>>
                /\ tf_call'.pc = "idle"
        /\ (~cc_request.sent /\ cc_request'.sent)
             => /\ <<cc_solde', cc_type'>> = <<cc_solde, cc_type>>
                /\ cc_request'.variables = [solde |-> parseFloat(cc_solde), type |-> cc_type]
        /\ (~tf_request.sent /\ tf_request'.sent)
             => /\ <<tf_type', tf_montant', tf_compteId'>> = <<tf_type, tf_montant, tf_compteId>>
                /\ tf_request'.variables =
                      [type |-> tf_type, montant |-> parseFloat(tf_montant),
                       compteId |-> tf_compteId]
        /\ (cc_request.sent /\ cc_request'.sent)
             => /\ cc_solde' # cc_solde => CC_setSolde(cc_solde')
                /\ cc_type' # cc_type => CC_setType(cc_type')
        /\ (tf_request.sent /\ tf_request'.sent)
             => /\ tf_type' # tf_type => TF_setType(tf_type')
                /\ tf_montant' # tf_montant => TF_setMontant(tf_montant')
                /\ tf_compteId' # tf_compteId => TF_setCompteId(tf_compteId') ]_vars

\* The Account Creator has reported a failed write and holds the balance and
\* the kind it sent.  The write of the Transaction Form, sent as DEPOT, has
\* just failed: the form holds the amount and the account it sent, and
\* RETRAIT, to which the user changed the kind while the write was on the wire.
C11_Witness ==
    /\ tf_call.pc = "rejected"
    /\ tf_call.message = "Compte introuvable"
    /\ tf_mutation.error = "Compte introuvable"
    /\ tf_call.type = "DEPOT"
    /\ tf_type = "RETRAIT"
    /\ tf_montant = <<"0", ".", "5">>
    /\ tf_compteId = "1"
    /\ cc_call.pc = "idle"
    /\ cc_mutation.error = "Failed to fetch"
    /\ cc_solde = <<"0", ".", "5">>
    /\ cc_type = "EPARGNE"

\* C12: while a write of a form is on the wire its submit control is disabled
\* and no submit of that form can run, so a write goes on the wire only when
\* the form has none there; once the write has settled and its handler has
\* finished, the control is enabled and a submit can run again.
C12_OneWriteInFlight ==
    /\ [](/\ cc_request.sent => (cc_mutation.loading /\ ~ENABLED CC_submit)
          /\ tf_request.sent => (tf_mutation.loading /\ ~ENABLED TF_submit)
          /\ (~cc_request.sent /\ cc_call.pc = "idle" /\ tf_call.pc \in {"idle", "awaiting"})
                => (~cc_mutation.loading /\ ENABLED CC_submit)
          /\ (~tf_request.sent /\ tf_call.pc = "idle" /\ cc_call.pc \in {"idle", "awaiting"})
                => (~tf_mutation.loading /\ ENABLED TF_submit))
    /\ [][ /\ CC_submit => ~cc_request.sent
           /\ TF_submit => ~tf_request.sent
           /\ (cc_request'.sent /\ cc_request' # cc_request) => ~cc_request.sent
           /\ (tf_request'.sent /\ tf_request' # tf_request) => ~tf_request.sent ]_vars

C12_Witness ==
    /\ cc_request.sent
    /\ tf_request.sent
    /\ cc_mutation.loading
    /\ tf_mutation.loading
    /\ cc_mutation.error = "none"
    /\ cc_type = "EPARGNE"
    /\ cc_request.variables.type = "COURANT"

\* C13: at any time each read component shows exactly one of three views: with
\* its hook loading, the loading indicator and no row; with an error, the
\* message of the error and no row (also when an earlier result is still
\* held); otherwise one row per entity of the result, in its order, and the
\* count label with the number of entities of the result.
C13_OneOfThreeViews ==
    /\ CompteListView.kind \in {"loading", "error", "ready"}
    /\ TransactionListView.kind \in {"loading", "error", "ready"}
    /\ CompteListView.kind = "loading" <=> compteList.loading
    /\ TransactionListView.kind = "loading" <=> transactionList.loading
    /\ CompteListView.kind = "error" <=> (~compteList.loading /\ compteList.error # "none")
    /\ TransactionListView.kind = "error"
          <=> (~transactionList.loading /\ transactionList.error # "none")
    /\ CompteListView.kind = "loading" =>
          (CompteListView.cards = <<>> /\ CompteListView.message = "")
    /\ TransactionListView.kind = "loading" =>
          (TransactionListView.cards = <<>> /\ TransactionListView.message = "")
    /\ CompteListView.kind = "error" =>
          /\ CompteListView.cards = <<>>
          /\ CompteListView.label = <<>>
          /\ CompteListView.message = compteList.error
          /\ CompteListView.message \in {"Failed to fetch", "Compte introuvable"}
    /\ TransactionListView.kind = "error" =>
          /\ TransactionListView.cards = <<>>
          /\ TransactionListView.label = <<>>
          /\ TransactionListView.message = transactionList.error
          /\ TransactionListView.message \in {"Failed to fetch", "Compte introuvable"}
    /\ CompteListView.kind = "ready" =>
          /\ compteList.data.defined
          /\ Len(CompteListView.cards) = Len(compteList.data.rows)
          /\ \A i \in 1..Len(compteList.data.rows) :
                CompteListView.cards[i].id = compteList.data.rows[i].id
          /\ CompteListView.label =
                <<"Total: ", Len(CompteListView.cards), " compte(s)">>
          /\ CompteListView.message = ""
    /\ TransactionListView.kind = "ready" =>
          /\ transactionList.data.defined
          /\ Len(TransactionListView.cards) = Len(transactionList.data.rows)
          /\ \A i \in 1..Len(transactionList.data.rows) :
                TransactionListView.cards[i].id = transactionList.data.rows[i].id
          /\ TransactionListView.label =
                <<"Total: ", Len(TransactionListView.cards), " transaction(s)">>
          /\ TransactionListView.message = ""

C13_Witness ==
    /\ CompteListView.kind = "ready"
    /\ CompteListView.label = <<"Total: ", 2, " compte(s)">>
    /\ Len(CompteListView.cards) = 2
    /\ TransactionListView.kind = "error"
    /\ TransactionListView.message = "Failed to fetch"
    /\ Len(transactionList.data.rows) = 2
    /\ transactionList.data.rows[1].id = "t2"
    /\ transactionList.data.rows[2].id = "t1"

\* C14: a click on the refresh button of a read component hands to the client
\* exactly one read, of that component's own query, which is then on the wire;
\* the click itself changes nothing of what either component shows nor of what
\* the cache holds, and from the click until the request for its query
\* settles, whatever other result reaches the cache meanwhile, what the
\* component shows stays as it is.
C14_RefreshReissuesOnce ==
    [][ /\ (CL_refetch \/ \E i \in 1..Len(issued') : issued'[i].by = "CompteList.useQuery")
             => /\ issued' = <<[query |-> "GET_ALL_COMPTES", by |-> "CompteList.useQuery"]>>
                /\ "CompteList.useQuery" \in inflight'["GET_ALL_COMPTES"]
                /\ inflight'["GET_ALL_TRANSACTIONS"] = inflight["GET_ALL_TRANSACTIONS"]
                /\ CompteListView.kind = "ready"
                /\ CompteListView' = CompteListView
                /\ TransactionListView' = TransactionListView
                /\ cache' = cache /\ entities' = entities
        /\ (TL_refetch \/ \E i \in 1..Len(issued') : issued'[i].by = "TransactionList.useQuery")
             => /\ issued' = <<[query |-> "GET_ALL_TRANSACTIONS",
                                by |-> "TransactionList.useQuery"]>>
                /\ "TransactionList.useQuery" \in inflight'["GET_ALL_TRANSACTIONS"]
                /\ inflight'["GET_ALL_COMPTES"] = inflight["GET_ALL_COMPTES"]
                /\ TransactionListView.kind = "ready"
                /\ TransactionListView' = TransactionListView
                /\ CompteListView' = CompteListView
                /\ cache' = cache /\ entities' = entities
        /\ ("CompteList.useQuery" \in inflight["GET_ALL_COMPTES"]
            /\ CompteListView' # CompteListView)
             => inflight'["GET_ALL_COMPTES"] = {}
        /\ ("TransactionList.useQuery" \in inflight["GET_ALL_TRANSACTIONS"]
            /\ TransactionListView' # TransactionListView)
             => inflight'["GET_ALL_TRANSACTIONS"] = {} ]_vars

\* The Account List waits for the read of a refresh click and still shows the
\* balance of its latest result, while the cache has since received another
\* balance for the same account.
C14_Witness ==
    /\ inflight["GET_ALL_COMPTES"] = {"CompteList.useQuery"}
    /\ CompteListView.kind = "ready"
    /\ Len(CompteListView.cards) = 2
    /\ cache["GET_ALL_COMPTES"] = Data(<<"1", "2">>)
    /\ entities["1"] # compteList.data.rows[1].solde

\* C15 as stated: a read component starts in loading and leaves it only for
\* error or ready, when its read settles; a manual refresh puts the component
\* back in the loading state.
C15_RefreshRestartsLoading ==
    /\ CompteListView.kind = "loading"
    /\ TransactionListView.kind = "loading"
    /\ [][ /\ (CompteListView.kind = "loading" /\ CompteListView'.kind # "loading")
                => /\ CompteListView'.kind \in {"error", "ready"}
                   /\ inflight'["GET_ALL_COMPTES"] = {}
           /\ (TransactionListView.kind = "loading" /\ TransactionListView'.kind # "loading")
                => /\ TransactionListView'.kind \in {"error", "ready"}
                   /\ inflight'["GET_ALL_TRANSACTIONS"] = {}
           /\ CL_refetch => CompteListView'.kind = "loading"
           /\ TL_refetch => TransactionListView'.kind = "loading" ]_vars

\* C15, amended: a read component starts in loading and leaves it only for
\* error (its read failed) or ready (data present), when its read settles, and
\* never returns to it; a manual refresh can be made only from ready and
\* leaves the component in ready, showing the same data, while the re-issued
\* read is on the wire.
C15_RefreshKeepsReady ==
    /\ CompteListView.kind = "loading"
    /\ TransactionListView.kind = "loading"
    /\ [](/\ CompteListView.kind \in {"loading", "error"} => ~ENABLED CL_refetch
          /\ TransactionListView.kind \in {"loading", "error"} => ~ENABLED TL_refetch
          /\ CompteListView.kind = "loading"
                => "CompteList.useQuery" \in inflight["GET_ALL_COMPTES"]
          /\ TransactionListView.kind = "loading"
                => "TransactionList.useQuery" \in inflight["GET_ALL_TRANSACTIONS"])
    /\ [][ /\ (CompteListView.kind = "loading" /\ CompteListView'.kind # "loading")
                => /\ CompteListView'.kind \in {"error", "ready"}
                   /\ inflight'["GET_ALL_COMPTES"] = {}
           /\ (TransactionListView.kind = "loading" /\ TransactionListView'.kind # "loading")
                => /\ TransactionListView'.kind \in {"error", "ready"}
                   /\ inflight'["GET_ALL_TRANSACTIONS"] = {}
           /\ CompteListView.kind # "loading" => CompteListView'.kind # "loading"
           /\ TransactionListView.kind # "loading" => TransactionListView'.kind # "loading"
           /\ CL_refetch
                => /\ CompteListView.kind = "ready"
                   /\ CompteListView' = CompteListView
                   /\ "CompteList.useQuery" \in inflight'["GET_ALL_COMPTES"]
           /\ TL_refetch
                => /\ TransactionListView.kind = "ready"
                   /\ TransactionListView' = TransactionListView
                   /\ "TransactionList.useQuery" \in inflight'["GET_ALL_TRANSACTIONS"] ]_vars

C15_Witness ==
    /\ issued = <<[query |-> "GET_ALL_TRANSACTIONS", by |-> "TransactionList.useQuery"]>>
    /\ "TransactionList.useQuery" \in inflight["GET_ALL_TRANSACTIONS"]
    /\ TransactionListView.kind = "ready"
    /\ Len(TransactionListView.cards) = 2
    /\ CompteListView.kind = "error"

\* C16: when a read fails, the component that waits for it enters its error
\* state and shows the message of the error verbatim; in the error state the
\* user can trigger a manual refresh (whenever no handler is about to resume),
\* and the component leaves the error state only through one, that is when its
\* own re-issued read is answered.
C16_ErrorRecoverableByRefresh ==
    /\ [](/\ (CompteListView.kind = "error" /\ tf_call.pc \in {"idle", "awaiting"})
                => ENABLED CL_refetch
          /\ (TransactionListView.kind = "error" /\ tf_call.pc \in {"idle", "awaiting"})
                => ENABLED TL_refetch)
    /\ [][ /\ (CompteListView.kind # "error" /\ CompteListView'.kind = "error")
                => /\ "CompteList.useQuery" \in inflight["GET_ALL_COMPTES"]
                   /\ inflight'["GET_ALL_COMPTES"] = {}
                   /\ CompteListView'.message = compteList'.error
                   /\ CompteListView'.message \in {"Failed to fetch", "Compte introuvable"}
           /\ (TransactionListView.kind # "error" /\ TransactionListView'.kind = "error")
                => /\ "TransactionList.useQuery" \in inflight["GET_ALL_TRANSACTIONS"]
                   /\ inflight'["GET_ALL_TRANSACTIONS"] = {}
                   /\ TransactionListView'.message = transactionList'.error
                   /\ TransactionListView'.message \in {"Failed to fetch", "Compte introuvable"}
           /\ (CompteListView.kind = "error" /\ CompteListView'.kind # "error")
                => "CompteList.useQuery" \in inflight["GET_ALL_COMPTES"]
           /\ (TransactionListView.kind = "error" /\ TransactionListView'.kind # "error")
                => "TransactionList.useQuery" \in inflight["GET_ALL_TRANSACTIONS"] ]_vars

\* C17 as stated: a read component changes state (loading, error, ready) only
\* in a step in which the request for its own query settles; after the reads
\* of the mount, a read is handed to the client, and a reader added to a
\* request, only by a click on a refresh button or by the success of a write
\* with its refetch binding: nothing else issues a read.
C17_OwnReadOutcomeOnly ==
    /\ inflight = [q \in {"GET_ALL_COMPTES", "GET_ALL_TRANSACTIONS"} |->
                     IF q = "GET_ALL_COMPTES"
                     THEN {"CompteList.useQuery", "TransactionForm.useQuery"}
                     ELSE {"TransactionList.useQuery"}]
    /\ [][ /\ CompteListView'.kind # CompteListView.kind
                => (inflight["GET_ALL_COMPTES"] # {} /\ inflight'["GET_ALL_COMPTES"] = {})
           /\ TransactionListView'.kind # TransactionListView.kind
                => (inflight["GET_ALL_TRANSACTIONS"] # {}
                    /\ inflight'["GET_ALL_TRANSACTIONS"] = {})
           /\ issued' # <<>>
                => \/ /\ CompteListView.refresh
                      /\ issued' = <<[query |-> "GET_ALL_COMPTES",
                                      by |-> "CompteList.useQuery"]>>
                   \/ /\ TransactionListView.refresh
                      /\ issued' = <<[query |-> "GET_ALL_TRANSACTIONS",
                                      by |-> "TransactionList.useQuery"]>>
                   \/ /\ tf_request.sent /\ ~tf_request'.sent
                      /\ tf_mutation'.error = "none"
                      /\ \A i \in 1..Len(issued') :
                            issued'[i].by = "TransactionForm.refetchQueries" ]_vars

\* C17, amended: what a read component holds changes only in a step in which
\* a result reaches the client: the step in which the request for its own
\* query settles, or, for a component that is not waiting for a read, the
\* step in which a successful result (the answer of a read of the other
\* query, or of a Record transaction write) changes in the cache the balance
\* of an account of the latest result of its query, which leaves the
\* component ready with what the cache then gives for its query.  After the
\* reads of the mount, a read is handed to the client, and a reader added to
\* a request, only by a click on a refresh button or by the success of a
\* write with its refetch binding: nothing else issues a read.
C17_ReadsOnlyOnDemand ==
    /\ inflight = [q \in {"GET_ALL_COMPTES", "GET_ALL_TRANSACTIONS"} |->
                     IF q = "GET_ALL_COMPTES"
                     THEN {"CompteList.useQuery", "TransactionForm.useQuery"}
                     ELSE {"TransactionList.useQuery"}]
    /\ [][ /\ compteList' # compteList
                => \/ inflight["GET_ALL_COMPTES"] # {} /\ inflight'["GET_ALL_COMPTES"] = {}
                   \/ /\ "CompteList.useQuery" \notin inflight["GET_ALL_COMPTES"]
                      /\ \/ /\ inflight["GET_ALL_TRANSACTIONS"] # {}
                            /\ inflight'["GET_ALL_TRANSACTIONS"] = {}
                         \/ /\ tf_request.sent /\ ~tf_request'.sent
                            /\ tf_mutation'.error = "none"
                      /\ cache'["GET_ALL_COMPTES"] = cache["GET_ALL_COMPTES"]
                      /\ ReadQuery(cache', entities', "GET_ALL_COMPTES")
                            # ReadQuery(cache, entities, "GET_ALL_COMPTES")
                      /\ compteList' =
                            [loading |-> FALSE, error |-> "none",
                             data |-> ReadQuery(cache', entities', "GET_ALL_COMPTES")]
           /\ transactionList' # transactionList
                => \/ /\ inflight["GET_ALL_TRANSACTIONS"] # {}
                      /\ inflight'["GET_ALL_TRANSACTIONS"] = {}
                   \/ /\ "TransactionList.useQuery" \notin inflight["GET_ALL_TRANSACTIONS"]
                      /\ \/ /\ inflight["GET_ALL_COMPTES"] # {}
                            /\ inflight'["GET_ALL_COMPTES"] = {}
                         \/ /\ tf_request.sent /\ ~tf_request'.sent
                            /\ tf_mutation'.error = "none"
                      /\ cache'["GET_ALL_TRANSACTIONS"] = cache["GET_ALL_TRANSACTIONS"]
                      /\ ReadQuery(cache', entities', "GET_ALL_TRANSACTIONS")
                            # ReadQuery(cache, entities, "GET_ALL_TRANSACTIONS")
                      /\ transactionList' =
                            [loading |-> FALSE, error |-> "none",
                             data |-> ReadQuery(cache', entities', "GET_ALL_TRANSACTIONS")]
           /\ issued' # <<>>
                => \/ /\ CompteListView.refresh
                      /\ issued' = <<[query |-> "GET_ALL_COMPTES",
                                      by |-> "CompteList.useQuery"]>>
                   \/ /\ TransactionListView.refresh
                      /\ issued' = <<[query |-> "GET_ALL_TRANSACTIONS",
                                      by |-> "TransactionList.useQuery"]>>
                   \/ /\ tf_request.sent /\ ~tf_request'.sent
                      /\ tf_mutation'.error = "none"
                      /\ \A i \in 1..Len(issued') :
                            issued'[i].by = "TransactionForm.refetchQueries"
           /\ \A q \in {"GET_ALL_COMPTES", "GET_ALL_TRANSACTIONS"} :
                \A reader \in inflight'[q] \ inflight[q] :
                    \E i \in 1..Len(issued') :
                        issued'[i] = [query |-> q, by |-> reader] ]_vars

\* A Record transaction write has just succeeded and handed its two bound
\* reads to the client.  Its result has brought another balance for account
\* "1", which the Account List, not waiting for a read, now shows, while the
\* Transaction List, waiting for the read of a refresh click, still shows
\* the balance of its latest result.
C17_Witness ==
    /\ issued = <<[query |-> "GET_ALL_TRANSACTIONS", by |-> "TransactionForm.refetchQueries"],
                  [query |-> "GET_ALL_COMPTES", by |-> "TransactionForm.refetchQueries"]>>
    /\ inflight["GET_ALL_COMPTES"] = {"TransactionForm.refetchQueries"}
    /\ "TransactionList.useQuery" \in inflight["GET_ALL_TRANSACTIONS"]
    /\ CompteListView.kind = "ready"
    /\ compteList.data.rows # <<>>
    /\ compteList.data.rows[1].solde = entities["1"]
    /\ TransactionListView.kind = "ready"
    /\ transactionList.data.rows # <<>>
    /\ transactionList.data.rows[1].compte.solde # entities["1"]

\* C18: every read handed to the client is on the wire after the step that
\* issues it, whether or not the cache holds a result for its query.  The
\* step that issues a read writes no result of a query to the cache, and
\* delivers nothing to the component that issued it; a component that waits
\* for a read keeps what it holds until the request settles, and when the
\* network answers it holds the answer.
C18_ReadsGoToNetwork ==
    [][ /\ \A i \in 1..Len(issued') : issued'[i].by \in inflight'[issued'[i].query]
        /\ issued' # <<>> => cache' = cache
        /\ \A i \in 1..Len(issued') :
             /\ issued'[i].by = "CompteList.useQuery"
                  => (compteList' = compteList /\ entities' = entities)
             /\ issued'[i].by = "TransactionList.useQuery"
                  => (transactionList' = transactionList /\ entities' = entities)
        /\ ("CompteList.useQuery" \in inflight["GET_ALL_COMPTES"]
            /\ compteList' # compteList)
             => inflight'["GET_ALL_COMPTES"] = {}
        /\ ("TransactionForm.useQuery" \in inflight["GET_ALL_COMPTES"]
            /\ tf_comptesData' # tf_comptesData)
             => inflight'["GET_ALL_COMPTES"] = {}
        /\ ("TransactionList.useQuery" \in inflight["GET_ALL_TRANSACTIONS"]
            /\ transactionList' # transactionList)
             => inflight'["GET_ALL_TRANSACTIONS"] = {}
        /\ \A q \in {"GET_ALL_COMPTES", "GET_ALL_TRANSACTIONS"} :
             (inflight[q] # {} /\ inflight'[q] = {})
                => \/ cache' = cache /\ entities' = entities
                   \/ /\ cache'[q].defined
                      /\ "CompteList.useQuery" \in inflight[q]
                            => compteList'.data = ReadQuery(cache', entities', q)
                      /\ "TransactionForm.useQuery" \in inflight[q]
                            => tf_comptesData' = ReadQuery(cache', entities', q)
                      /\ "TransactionList.useQuery" \in inflight[q]
                            => transactionList'.data = ReadQuery(cache', entities', q) ]_vars

\* The Transaction List has just re-issued its read, which is on the wire,
\* although the cache holds the result it shows.
C18_Witness ==
    /\ issued = <<[query |-> "GET_ALL_TRANSACTIONS", by |-> "TransactionList.useQuery"]>>
    /\ cache["GET_ALL_TRANSACTIONS"] = Data(<<"t1">>)
    /\ transactionList.data = ReadQuery(cache, entities, "GET_ALL_TRANSACTIONS")
    /\ inflight["GET_ALL_TRANSACTIONS"] = {"TransactionList.useQuery"}

\* C19: in its ready state, with a result that holds accounts, the Account
\* List displays the total balance, the sum of the balances of all the
\* accounts of the result (1500.50 and 5000.00 give 6500.50).
C19_TotalBalanceDisplayed ==
    (CompteListView.kind = "ready" /\ compteList.data.rows # <<>>) =>
        LET rows == compteList.data.rows
            cents[i \in 0..Len(rows)] ==
                IF i = 0 THEN 0
                ELSE cents[i - 1]
                     + LET digits == Hundredths(rows[i].solde)
                           value[k \in 0..Len(digits)] ==
                               IF k = 0 THEN 0 ELSE 10 * value[k - 1] + digits[k]
                       IN  value[Len(digits)]
            total == Num(FALSE, cents[Len(rows)], 2)
        IN  \E i \in 1..Len(CompteListView.cards) :
                CompteListView.cards[i].solde = toFixed2(total)

\* C20: in its ready state the Transaction List displays the transactions
\* with the most recent first, in whatever order the backend returned them.
C20_MostRecentFirst ==
    TransactionListView.kind = "ready" =>
        \A i, j \in 1..Len(TransactionListView.cards) :
            i < j => TransactionListView.cards[i].date >= TransactionListView.cards[j].date

\* C21: while the Transaction Form's 'List accounts' read is unresolved or has
\* failed (the form holds no result), the form is usable (its fields can be
\* edited and its submit control can be used), the account selector offers
\* only the empty placeholder, no account is selected, and every submit is
\* rejected on the client: the validation message points at the selector,
\* handleSubmit does not run and no write is sent.
C21_EmptySelectorRejects ==
    /\ [](~tf_comptesData.defined =>
            /\ TF_options = {""}
            /\ tf_compteId = ""
            /\ ~tf_request.sent
            /\ tf_call.pc = "idle"
            /\ ENABLED TF_setMontant(<<"5">>)
            /\ ENABLED TF_setType("RETRAIT")
            /\ ENABLED TF_submit
            /\ \A id \in CompteIds : ~ENABLED TF_setCompteId(id))
    /\ [][ (TF_submit /\ ~tf_comptesData.defined)
            => /\ tf_request' = NoRequest
               /\ ~tf_mutation'.loading
               /\ tf_call' = tf_call
               /\ bubble' = "compteId" ]_vars

\* A submit with the amount 5 has just been rejected at the selector, the
\* accounts read having failed.
C21_Witness ==
    /\ ~tf_comptesData.defined
    /\ inflight["GET_ALL_COMPTES"] = {}
    /\ compteList.error = "Failed to fetch"
    /\ tf_montant = <<"5">>
    /\ bubble = "compteId"
    /\ tf_request = NoRequest

\* request for its query on the wire and issues no read; a reader is added to
\* a request only by a read issued by a refresh click or a refetch binding.
C23_NoAutomaticRetry ==
    [][ /\ (cc_request'.sent /\ cc_request' # cc_request)
             => /\ ~cc_request.sent
                /\ cc_call.pc = "idle" /\ cc_call'.pc = "awaiting"
                /\ cc_solde # <<>> /\ GeqZero(parseFloat(cc_solde))
        /\ (tf_request'.sent /\ tf_request' # tf_request)
             => /\ ~tf_request.sent
                /\ tf_call.pc = "idle" /\ tf_call'.pc = "awaiting"
                /\ tf_montant # <<>> /\ GtZero(parseFloat(tf_montant))
                /\ tf_compteId # ""
        /\ (cc_call.pc = "awaiting" /\ cc_call'.pc # "awaiting") => ~cc_request'.sent
        /\ (tf_call.pc = "awaiting" /\ tf_call'.pc # "awaiting") => ~tf_request'.sent
        /\ cc_call.pc \in {"rejected", "resolved"}
             => (~cc_request'.sent /\ cc_call'.pc = "idle")
        /\ tf_call.pc \in {"rejected", "resolved"}
             => (~tf_request'.sent /\ tf_call'.pc = "idle")
        /\ (compteList'.error # "none" /\ compteList' # compteList)
             => (inflight'["GET_ALL_COMPTES"] = {} /\ issued' = <<>>)
        /\ (transactionList'.error # "none" /\ transactionList' # transactionList)
             => (inflight'["GET_ALL_TRANSACTIONS"] = {} /\ issued' = <<>>)
        /\ \A q \in {"GET_ALL_COMPTES", "GET_ALL_TRANSACTIONS"} :
             \A reader \in inflight'[q] \ inflight[q] :
                /\ reader \in {"CompteList.useQuery", "TransactionList.useQuery",
                               "CreateCompte.refetchQueries",
                               "TransactionForm.refetchQueries"}
                /\ \E i \in 1..Len(issued') : issued'[i] = [query |-> q, by |-> reader] ]_vars

C23_Witness ==
    /\ transactionList.error = "Failed to fetch"
    /\ inflight["GET_ALL_TRANSACTIONS"] = {}
    /\ tf_mutation.error = "Compte introuvable"
    /\ ~tf_request.sent
    /\ tf_call.pc = "idle"
    /\ cc_mutation.error = "Failed to fetch"
    /\ ~cc_request.sent
    /\ cc_call.pc = "idle"

\* C24: once a component has left the page, no request of it that settles
\* later surfaces anything: no success or error notice is raised for the
\* Transaction Form, and no hook of an unmounted component takes a result.
C24_UnmountDiscardsResult ==
    [][ /\ "TransactionForm" \notin mounted
             => (alerts' = <<>> /\ tf_comptesData' = tf_comptesData)
        /\ "CompteList" \notin mounted => compteList' = compteList
        /\ "TransactionList" \notin mounted => transactionList' = transactionList ]_vars

\* C25: the failed state of a form ends with the next edit: a step in which
\* the user changes a field of a form whose last write failed leaves the form
\* without the error of that write.
C25_EditClearsFailure ==
    [][ /\ (/\ tf_mutation.error # "none" /\ tf_call.pc = "idle"
             /\ <<tf_type, tf_montant, tf_compteId>>' # <<tf_type, tf_montant, tf_compteId>>)
             => tf_mutation'.error = "none"
        /\ (/\ cc_mutation.error # "none" /\ cc_call.pc = "idle"
             /\ <<cc_solde, cc_type>>' # <<cc_solde, cc_type>>)
             => cc_mutation'.error = "none" ]_vars

\* C26: once a write has succeeded and no read is on the wire, each list
\* displays the result of a request that was sent after that write; data
\* computed before the write is not left on display.
C26_FreshAfterWrite ==
    (/\ origin.written
     /\ \A q \in Queries : inflight[q] = {}
     /\ tf_call.pc = "idle")
        => /\ CompteListView.kind = "ready"
           /\ TransactionListView.kind = "ready"
           /\ \A q \in Queries : origin.shown[q] = "new"

\* C27: the step in which a write fails, and the step that reports the
\* failure, hand no read to the client and leave the requests on the wire as
\* they are; a read is issued by a refetch binding only in the step in which
\* the write of its form succeeds.
C27_NoRefetchAfterFailure ==
    [][ /\ (tf_call.pc = "awaiting" /\ tf_call'.pc = "rejected")
             => (issued' = <<>> /\ inflight' = inflight)
        /\ (cc_call.pc = "awaiting" /\ cc_call'.pc = "rejected")
             => (issued' = <<>> /\ inflight' = inflight)
        /\ (tf_call.pc = "rejected" \/ cc_call.pc = "rejected")
             => (issued' = <<>> /\ inflight' = inflight)
        /\ \A i \in 1..Len(issued') :
             /\ issued'[i].by = TransactionFormRefetch
                  => (tf_call.pc = "awaiting" /\ tf_call'.pc = "resolved")
             /\ issued'[i].by = CreateCompteRefetch
                  => (cc_call.pc = "awaiting" /\ cc_call'.pc = "resolved") ]_vars

C27_Witness ==
    /\ tf_call.pc = "rejected"
    /\ tf_mutation.error = "Compte introuvable"
    /\ issued = <<>>
    /\ \A q \in Queries : inflight[q] = {}
    /\ cache["GET_ALL_COMPTES"] = Data(<<"1">>)

\* C28: a submit that client-side validation rejects changes nothing: a
\* click on the submit control of a form one of whose controls breaks its
\* constraint (the account selector shows the placeholder; the number field
\* is empty, below its minimum or off its step) leaves every field, the
\* state of both writes, the handleSubmit calls and the reads as they were,
\* sends and issues nothing, and leaves the submit control of the form
\* enabled; and so does every step that ends with a validation message.
C28_RejectedSubmitChangesNothing ==
    [][ LET montant == DecimalOf(tf_montant)
            solde == DecimalOf(cc_solde)
            tfRejected ==
                \/ TF_selectValue = ""
                \/ tf_montant = <<>>
                \/ RangeUnderflow(montant, MontantMin)
                \/ StepMismatch(montant) = "yes"
            ccRejected ==
                \/ cc_solde = <<>>
                \/ RangeUnderflow(solde, SoldeMin)
                \/ StepMismatch(solde) = "yes"
        IN  /\ ((TF_submit /\ tfRejected) \/ bubble' \in {"compteId", "montant"})
                 => /\ UNCHANGED <<tf_type, tf_montant, tf_compteId>>
                    /\ UNCHANGED <<tf_mutation, tf_request, tf_call>>
                    /\ ~tf_mutation'.loading /\ ~TF_submitDisabled'
                    /\ UNCHANGED <<ccVars, readVars, inflight>> /\ issued' = <<>>
            /\ ((CC_submit /\ ccRejected) \/ bubble' = "solde")
                 => /\ UNCHANGED <<cc_solde, cc_type>>
                    /\ UNCHANGED <<cc_mutation, cc_request, cc_call>>
                    /\ ~cc_mutation'.loading /\ ~CC_submitDisabled'
                    /\ UNCHANGED <<tfVars, readVars, inflight>> /\ issued' = <<>> ]_vars

\* A submit of the Account Creator has just been rejected for a balance off
\* the step, its balance and kind kept, next to a Transaction Form that
\* shows a failed write.
C28_Witness ==
    /\ bubble = "solde"
    /\ cc_solde = <<"0", ".", "0", "0", "5">> /\ cc_type = "EPARGNE"
    /\ ~CC_submitDisabled
    /\ tf_montant = <<"5">> /\ tf_compteId = "" /\ tf_type = "RETRAIT"
    /\ tf_mutation.error = "Compte introuvable"
    /\ ~TF_submitDisabled

\* C29: while the write of the Transaction Form is on the wire every field
\* of the form can still be edited, and the success notice names the kind
\* the write was sent with, whatever the kind selector shows by then.
C29_NoticeNamesSubmittedKind ==
    /\ [](tf_call.pc = "awaiting"
            => /\ \A type \in TypeTransaction : ENABLED TF_setType(type)
               /\ \A text \in TypedTexts : ENABLED TF_setMontant(text)
               /\ \A id \in TF_options : ENABLED TF_setCompteId(id)
               /\ tf_call.type = tf_request.variables.type)
    /\ [][ tf_call.pc = "resolved"
             => alerts' = <<AlertTransaction(tf_call.type)>> ]_vars
    /\ [][ (tf_call.pc = "awaiting" /\ tf_call'.pc # "idle")
             => tf_call'.type = tf_call.type ]_vars

\* The success notice of a deposit has just been raised while the kind
\* selector shows RETRAIT.
C29_Witness ==
    /\ alerts = <<AlertTransaction("DEPOT")>>
    /\ tf_type = "RETRAIT"
    /\ tf_call.pc = "idle"

\* C30: with a backend that answers every write, a write that was sent is
\* followed by a state in which its form is idle, not submitting, with the
\* submit control enabled and a new click accepted.  The call that awaits
\* the write leaves the await by exactly one of success and failure, and
\* reports exactly that outcome with one notice.
C30_SubmitEnds ==
    /\ cc_request.sent ~> (/\ cc_call.pc = "idle" /\ ~cc_request.sent
                           /\ ~CC_submitDisabled /\ ~MicrotaskPending)
    /\ tf_request.sent ~> (/\ tf_call.pc = "idle" /\ ~tf_request.sent
                           /\ ~TF_submitDisabled /\ ~MicrotaskPending)
    /\ [][ /\ (cc_call.pc = "awaiting" /\ cc_call'.pc # "awaiting")
                => (cc_call'.pc \in {"resolved", "rejected"} /\ ~cc_request'.sent)
           /\ cc_call.pc = "resolved"
                => (cc_call'.pc = "idle" /\ alerts' = <<AlertCompteCree>>)
           /\ cc_call.pc = "rejected"
                => (cc_call'.pc = "idle" /\ alerts' = <<AlertErreur(cc_call.message)>>)
           /\ (tf_call.pc = "awaiting" /\ tf_call'.pc # "awaiting")
                => (tf_call'.pc \in {"resolved", "rejected"} /\ ~tf_request'.sent)
           /\ tf_call.pc = "resolved"
                => (tf_call'.pc = "idle" /\ alerts' = <<AlertTransaction(tf_call.type)>>)
           /\ tf_call.pc = "rejected"
                => (tf_call'.pc = "idle" /\ alerts' = <<AlertErreur(tf_call.message)>>) ]_vars

\* The Transaction Form has just reported a failed write and takes a new
\* submit, while the write of the Account Creator is still on the wire.
C30_Witness ==
    /\ alerts = <<AlertErreur("Failed to fetch")>>
    /\ tf_call.pc = "idle" /\ ~tf_request.sent /\ ~TF_submitDisabled
    /\ ENABLED TF_submit
    /\ cc_call.pc = "awaiting" /\ cc_request.sent

====
